---- MODULE Spec2Model ----
(***************************************************************************)
(* Model of the grustyssh SSH core: the Session Controller task            *)
(* (src/ssh/session.rs), the tunnel listener and relay tasks it spawns     *)
(* (src/ssh/tunnel.rs), the host-key handler (src/ssh/handler.rs) and the  *)
(* UI side of the command queue (src/ui/terminal_tab.rs); and of the SFTP  *)
(* engine (src/ssh/sftp.rs) with the UI side of its command queue and of   *)
(* its conflict dialog (src/ui/sftp_tab.rs).                               *)
(*                                                                         *)
(* Every await of the source is a step boundary: the synchronous code      *)
(* between two awaits is one atomic action.  The results of calls into the *)
(* SSH library, the key store and the operating system are chosen by the   *)
(* environment (\E over their possible outcomes).                          *)
(*                                                                         *)
(* The event sink is one FIFO channel shared by the session task and the   *)
(* listener tasks.  The model keeps, for every sending task, the sequence  *)
(* of events it sent (events for the session task, the field sent of a     *)
(* listener); a listener's event also records whether the session task had *)
(* already sent its Disconnected when the event was sent.  The order       *)
(* between events of different listeners is not kept.                      *)
(***************************************************************************)
EXTENDS Integers, Sequences, FiniteSets, TLC

VARIABLES
    profile,      \* the ConnectionProfile snapshot handed to spawn_session
    password,     \* Option<password>: "None" or "Some"
    pc,           \* position of the session task
    result,       \* what run_session returned: NoError, or the AppError
    exitPath,     \* how the task left run_session: "none","user","remote","error"
    events,       \* what the session task sent on the event sink, in send order
    wire,         \* calls the session task made on the transport and the
                  \* channel, with their results, in call order
    pwConsulted,  \* TRUE once the session task has read the password option
    cmdq,         \* commands in flight on the bounded command channel
    cmdClosed,    \* TRUE once every command sender has been dropped
    cmdSent,      \* number of commands the UI has sent
    chanData,     \* number of Data messages the shell channel has delivered
    lock,         \* holder of the Mutex around the transport handle
    listeners,    \* tunnel listener tasks, in spawn order
    conns,        \* per-connection relay tasks, in spawn order
    extBound,     \* local addresses bound by other processes
    serverKey,    \* kind of the public key the server presents
    spc,          \* position of the SFTP engine task
    sevents,      \* what the SFTP engine sent on its event sink, in send order,
                  \* since it received the command it is handling (before the
                  \* first command: since it was spawned)
    scmdq,        \* SFTP commands in flight on the bounded command channel
    scmdClosed,   \* TRUE once every SFTP command sender has been dropped
    scmdSent,     \* number of SFTP commands the UI has sent
    remote,       \* the server's file system: entry of every existing path
    localfs,      \* the local file system
    sops,         \* requests that change a file system, with their results,
                  \* and the conflict decisions acted on, in order, since the
                  \* engine received the command it is handling
    conflict_policy, \* ConflictPolicy.apply_to_all of the running transfer
    response,     \* the response channel of the pending TransferConflict
    frame,        \* the command being handled and the locals of the
                  \* procedures it is in
    faults,       \* number of granted requests that failed all the same
    evq,          \* events in flight on the bounded SFTP event channel
    evGot,        \* events the SFTP tab has received, in order
    evLog,        \* events accepted by the SFTP event channel, in order
    evOpen,       \* FALSE once the SFTP tab has dropped the event receiver
    evSeen,       \* the events of sevents whose send has returned
    arg,          \* arguments of the path function being evaluated
    out           \* its result

vars == <<profile, password, pc, result, exitPath, events, wire, pwConsulted,
          cmdq, cmdClosed, cmdSent, chanData, lock, listeners, conns, extBound,
          serverKey, spc, sevents, scmdq, scmdClosed, scmdSent, remote, localfs,
          sops, conflict_policy, response, frame, faults, evq, evGot, evLog,
          evOpen, evSeen, arg, out>>

\* The SFTP event channel as its two ends see it, and the evaluation of a
\* path function on its own.
sinkVars == <<evq, evGot, evLog, evOpen, evSeen>>
pureVars == <<arg, out>>

\* The session task with its tunnels, and the SFTP engine.
sessionVars == <<profile, password, pc, result, exitPath, events, wire, pwConsulted,
                 cmdq, cmdClosed, cmdSent, chanData, lock, listeners, conns, extBound,
                 serverKey>>
engineVars == <<spc, sevents, scmdq, scmdClosed, scmdSent, remote, localfs, sops,
                conflict_policy, response, frame, faults>>

\* What a step of the SFTP engine task leaves alone (sshVars), and what a
\* step of the session task and its tunnels leaves alone (sftpVars).
sshVars == <<sessionVars, sinkVars, pureVars>>
sftpVars == <<engineVars, sinkVars, pureVars>>

sessVars == <<pc, result, exitPath, wire, pwConsulted>>
uiVars == <<cmdq, cmdClosed, cmdSent>>
tunnelVars == <<listeners, conns>>
inputVars == <<profile, password, extBound, serverKey>>

(***************************************************************************)
(* Bounds of the model.                                                    *)
(***************************************************************************)
MaxCmds == 2      \* commands the UI sends during one session
MaxConns == 2     \* local connections accepted over all tunnels
MaxChanData == 1  \* Data messages delivered by the shell channel
MaxSftpCmds == 2  \* commands the UI sends to one SFTP engine
MaxFaults == 1    \* granted SFTP requests that fail all the same

(***************************************************************************)
(* Program constants.                                                      *)
(***************************************************************************)
CmdQueueCap == 64
SftpCmdQueueCap == 64
EventQueueCap == 256

TunnelIds == {"t1", "t2"}
Addrs == {"a1", "a2"}
AuthMethods == {"Password", "PublicKey", "Both"}

\* models::tunnel::TunnelConfig, reduced to the fields the core reads:
\* addr stands for the pair local_host:local_port.
TunnelConfig == [id : TunnelIds, addr : Addrs, enabled : BOOLEAN]

\* Profile tunnel lists: every TunnelConfig gets a fresh Uuid when it is
\* made, so the ids of one profile are distinct.
ProfileTunnels ==
    {<<>>} \cup {<<t>> : t \in {c \in TunnelConfig : c.id = "t1"}}
           \cup {<<t, u>> : t \in {c \in TunnelConfig : c.id = "t1"},
                            u \in {c \in TunnelConfig : c.id = "t2"}}

ConnectionProfile ==
    [auth_method : AuthMethods, key_pair_id : {"None", "Some"},
     tunnels : ProfileTunnels]

(***************************************************************************)
(* Errors and events.                                                      *)
(***************************************************************************)
NoError == [kind |-> "none", text |-> "none"]
AppError(kind, text) == [kind |-> kind, text |-> text]

\* #[error("...: {0}")] of AppError: the rendered message is the variant's
\* prefix followed by the payload.
ErrorPrefix(kind) ==
    CASE kind = "Connection" -> "Connection error: "
      [] kind = "Auth" -> "Authentication failed: "
      [] kind = "Tunnel" -> "Tunnel error: "
      [] OTHER -> ""

to_string(e) == <<ErrorPrefix(e.kind), e.text>>

None == <<>>
Some(m) == m
NoId == "none"

\* app::SshEvent
SshEvent(type, id, msg) == [type |-> type, id |-> id, msg |-> msg]

Emit(e) == events' = Append(events, e)

(***************************************************************************)
(* The SFTP engine (src/ssh/sftp.rs): one task with its own transport, a   *)
(* command queue and an event sink of its own.  A remote path is a string, *)
(* modelled as the sequence of its characters; the remote and the local    *)
(* file system map the resolved path (root, then the segments) of every    *)
(* existing entry to what is there.                                        *)
(***************************************************************************)
\* The characters of "/" and ".".
Slash == "/"
Dot == "."

starts_with(s, ch) == s # <<>> /\ s[1] = ch
ends_with(s, ch) == s # <<>> /\ s[Len(s)] = ch

\* str::trim_end_matches(ch)
RECURSIVE trim_end_matches(_, _)
trim_end_matches(s, ch) ==
    IF ends_with(s, ch) THEN trim_end_matches(SubSeq(s, 1, Len(s) - 1), ch) ELSE s

\* str::split(ch): the pieces between the occurrences of ch, empty pieces
\* included ("a//b" gives "a", "", "b"; "" gives "").
RECURSIVE split(_, _)
split(s, ch) ==
    IF \A i \in DOMAIN s : s[i] # ch
    THEN <<s>>
    ELSE LET k == CHOOSE i \in DOMAIN s : s[i] = ch /\ \A j \in 1..(i - 1) : s[j] # ch
         IN <<SubSeq(s, 1, k - 1)>> \o split(SubSeq(s, k + 1, Len(s)), ch)

\* Mutant: the empty base is not told apart.
join_remote_path_NoEmptyCase(base, name) ==
    IF base = <<Slash>> THEN <<Slash>> \o name
    ELSE IF ends_with(base, Slash) THEN base \o name
    ELSE base \o <<Slash>> \o name

\* fn join_remote_path(base, name)
join_remote_path(base, name) ==
    IF base = <<Slash>> THEN <<Slash>> \o name
    ELSE IF ends_with(base, Slash) THEN base \o name
    ELSE IF base = <<>> THEN name
    ELSE base \o <<Slash>> \o name

\* fn remote_basename(path)
remote_basename(path) ==
    LET trimmed == trim_end_matches(path, Slash)
        parts == split(trimmed, Slash)
    IN IF trimmed = <<>> THEN <<Slash>>
       ELSE IF parts[Len(parts)] # <<>> THEN parts[Len(parts)] ELSE trimmed

\* The segments ensure_remote_dir walks: normalized.split('/') without the
\* empty pieces and without ".".
IsSegment(piece) == piece # <<>> /\ piece # <<Dot>>
Segments(path) == SelectSeq(split(path, Slash), IsSegment)

\* How the server resolves a path: from the root when it starts with '/',
\* from the session's directory otherwise; empty pieces and "." name nothing.
Root == <<Slash>>
Cwd == <<Dot>>
Resolve(path) ==
    <<IF starts_with(path, Slash) THEN Root ELSE Cwd>> \o Segments(path)

Parent(key) == SubSeq(key, 1, Len(key) - 1)
Name(key) == key[Len(key)]
IsUnder(key, top) == Len(key) >= Len(top) /\ SubSeq(key, 1, Len(top)) = top
Children(fs, key) == {c \in DOMAIN fs : Len(c) = Len(key) + 1 /\ Parent(c) = key}

\* What is at a path: a directory, or a file with its contents (an identity
\* and a length in bytes).
DirEntry == [is_dir |-> TRUE, id |-> "dir", len |-> 0]
FileEntry(id, len) == [is_dir |-> FALSE, id |-> id, len |-> len]

Put(fs, key, e) == [k \in DOMAIN fs \cup {key} |-> IF k = key THEN e ELSE fs[k]]
Del(fs, key) == [k \in DOMAIN fs \ {key} |-> fs[k]]

\* When the server grants a request.
CanStat(fs, key) == key \in DOMAIN fs
CanReadDir(fs, key) == key \in DOMAIN fs /\ fs[key].is_dir
CanCreateDir(fs, key) ==
    /\ key \notin DOMAIN fs
    /\ Len(key) > 1
    /\ Parent(key) \in DOMAIN fs
    /\ fs[Parent(key)].is_dir
CanRemoveFile(fs, key) == key \in DOMAIN fs /\ ~fs[key].is_dir
CanRemoveDir(fs, key) ==
    /\ key \in DOMAIN fs
    /\ fs[key].is_dir
    /\ Len(key) > 1
    /\ Children(fs, key) = {}
CanWriteFile(fs, key) ==
    /\ Len(key) > 1
    /\ Parent(key) \in DOMAIN fs
    /\ fs[Parent(key)].is_dir
    /\ key \in DOMAIN fs => ~fs[key].is_dir
IsFileAt(fs, key) == key \in DOMAIN fs /\ ~fs[key].is_dir
IsDirAt(fs, key) == key \in DOMAIN fs /\ fs[key].is_dir
CanRename(fs, from, to) ==
    /\ from \in DOMAIN fs
    /\ Len(from) > 1
    /\ to \notin DOMAIN fs
    /\ Len(to) > 1
    /\ Parent(to) \in DOMAIN fs
    /\ fs[Parent(to)].is_dir
    /\ ~IsUnder(to, from)

\* rename moves the entry and everything beneath it.
Moved(key, from, to) == to \o SubSeq(key, Len(from) + 1, Len(key))
Rename(fs, from, to) ==
    LET moving == {k \in DOMAIN fs : IsUnder(k, from)}
        staying == DOMAIN fs \ moving
    IN [k \in staying \cup {Moved(m, from, to) : m \in moving} |->
           IF k \in staying
           THEN fs[k]
           ELSE fs[CHOOSE m \in moving : Moved(m, from, to) = k]]

\* A file system holds its two roots, and every other entry lies in a
\* directory.
WellFormed(fs) ==
    /\ {<<Root>>, <<Cwd>>} \subseteq DOMAIN fs
    /\ \A k \in DOMAIN fs :
          IF Len(k) = 1
          THEN fs[k] = DirEntry
          ELSE Parent(k) \in DOMAIN fs /\ fs[Parent(k)].is_dir

\* Every file system whose entries, besides the roots, are among keys, with
\* one kind of file.
Trees(keys) ==
    {fs \in UNION {[D \cup {<<Root>>, <<Cwd>>} -> {DirEntry, FileEntry("old", 1)}] :
                      D \in SUBSET keys} : WellFormed(fs)}

NoFiles == [k \in {<<Root>>, <<Cwd>>} |-> DirEntry]

(***************************************************************************)
(* Commands, events and the locals of the engine's procedures.             *)
(***************************************************************************)
NoPath == <<>>
NoKey == <<>>

\* sftp::SftpCommand: path is the remote path (from, for Rename), local the
\* local path, to the new name of Rename.
SftpCommand(type, path, local, to) ==
    [type |-> type, path |-> path, local |-> local, to |-> to]
NoCommand == SftpCommand("none", NoPath, NoKey, NoPath)

\* sftp::SftpEvent: tag is the kind of an Error or the direction of a
\* TransferConflict, path the path or name the event carries.
SftpEvent(type, tag, path) ==
    [type |-> type, tag |-> tag, path |-> path, is_dir |-> FALSE,
     bytes |-> 0, total |-> 0, entries |-> <<>>]

\* Every order in which a directory's entries may be listed.
Orders(S) == {seq \in [1..Cardinality(S) -> S] : \A i, j \in DOMAIN seq : seq[i] = seq[j] => i = j}

\* Locals of ensure_remote_dir, of remove_remote_entry_recursive, of
\* ask_transfer_conflict and of a transfer; ret is where the procedure
\* returns to.
NoEn == [segs |-> <<>>, current |-> NoPath, ret |-> "none"]
NoRm == [stack |-> <<>>, current |-> NoPath, ret |-> "none"]
NoAsk == [path |-> NoPath, key |-> NoKey, decision |-> "none", ret |-> "none"]
NoXfer == [stack |-> <<>>, entries |-> <<>>, entry |-> NoKey, target |-> NoPath,
           remote_file |-> NoPath, local_file |-> NoKey, name |-> NoPath,
           total |-> 0, written |-> 0, data |-> FileEntry("none", 0), ret |-> "none"]
NoErr == [tag |-> "none", path |-> NoPath]

\* What the engine looked at when it received the command it is handling:
\* the file systems, and how many granted requests had failed.  Kept for
\* stating properties; no action reads it.
NoSnapshot == [remote |-> <<>>, localfs |-> <<>>, faults |-> 0]
Snapshot == [remote |-> remote, localfs |-> localfs, faults |-> faults]

NoFrame == [cmd |-> NoCommand, at |-> NoSnapshot, err |-> NoErr,
            en |-> NoEn, rm |-> NoRm, ask |-> NoAsk, xfer |-> NoXfer]

NoResponse == [state |-> "none", decision |-> "none", apply_to_all |-> FALSE]

\* spawn_sftp_session has been called; the task has not run yet.
EngineSpawned ==
    /\ spc = "s_connect"
    /\ sevents = <<>>
    /\ scmdq = <<>>
    /\ scmdClosed = FALSE
    /\ scmdSent = 0
    /\ sops = <<>>
    /\ conflict_policy = "None"
    /\ response = NoResponse
    /\ frame = NoFrame
    /\ evq = <<>>
    /\ evGot = <<>>
    /\ evLog = <<>>
    /\ evOpen = TRUE
    /\ evSeen = <<>>

\* Every granted request may still fail.
SftpSpawned == EngineSpawned /\ faults = 0

\* An engine that is never scheduled, on empty file systems.
SftpQuiet ==
    /\ SftpSpawned
    /\ remote = NoFiles
    /\ localfs = NoFiles

(***************************************************************************)
(* Initial state: spawn_session has been called with some profile and      *)
(* credentials; the task has not run yet.                                  *)
(***************************************************************************)
Spawned ==
    /\ pc = "connect"
    /\ result = NoError
    /\ exitPath = "none"
    /\ events = <<>>
    /\ wire = <<>>
    /\ pwConsulted = FALSE
    /\ cmdq = <<>>
    /\ cmdClosed = FALSE
    /\ cmdSent = 0
    /\ chanData = 0
    /\ lock = 0
    /\ listeners = <<>>
    /\ conns = <<>>

\* No path function is being evaluated.
NoArg == <<>>
NoCall == arg = NoArg /\ out = NoArg

\* PublicKey: the kinds of server key the handler tells apart.
ServerKeys == {"Ed25519", "RSA", "EC"}

\* Any profile and credentials, any server key.
AnyProfile ==
    /\ profile \in ConnectionProfile
    /\ password \in {"None", "Some"}
    /\ extBound \in SUBSET Addrs
    /\ serverKey \in ServerKeys
    /\ Spawned
    /\ NoCall

InitSetup == AnyProfile /\ SftpQuiet

\* One profile: auth_method Both with a key and a password, one enabled and
\* one disabled tunnel; no address is held by another process.
OneInput ==
    /\ profile = [auth_method |-> "Both", key_pair_id |-> "Some",
                  tunnels |-> <<[id |-> "t1", addr |-> "a1", enabled |-> TRUE],
                                [id |-> "t2", addr |-> "a2", enabled |-> FALSE]>>]
    /\ password = "Some"
    /\ extBound = {}
    /\ serverKey = "Ed25519"
    /\ Spawned

OneProfile == OneInput /\ NoCall

Init == OneProfile /\ SftpQuiet

(***************************************************************************)
(* Session task: control helpers.                                          *)
(***************************************************************************)
Call(call, ret) == [call |-> call, ret |-> ret]
Did(call, ret) == wire' = Append(wire, Call(call, ret))

Goto(p) == pc' = p /\ UNCHANGED <<result, exitPath>>

\* `?` on an Err: run_session returns the error to the closure of
\* spawn_session, which then reports it.
Fail(e) == pc' = "report_error" /\ result' = e /\ exitPath' = "error"

(***************************************************************************)
(* client::connect: the handshake calls the handler's check_server_key,    *)
(* which sends HostKeyVerify and accepts; the connect may fail before or   *)
(* after that.                                                             *)
(***************************************************************************)
\* match server_public_key { Ed25519 => "ssh-ed25519", RSA => "ssh-rsa",
\*                           EC { key } => key.ident() }
key_type(key) ==
    CASE key = "Ed25519" -> "ssh-ed25519"
      [] key = "RSA" -> "ssh-rsa"
      [] key = "EC" -> "ecdsa-sha2-nistp256"

fingerprint(key) == "SHA256:" \o key

HostKeyVerify(key) == SshEvent("HostKeyVerify", NoId, <<key_type(key), fingerprint(key)>>)

\* What event_tx.send(..).await returns: Err when the receiver is gone.
SendResults == {"Ok", "Closed"}

\* Mutant: the key is accepted only when the event was delivered.
Verdict_NeedsDelivery(key, sent) == sent = "Ok"

\* let _ = send(..).await; Ok(true)
Verdict(key, sent) == TRUE

check_server_key ==
    /\ pc = "connect"
    /\ Emit(HostKeyVerify(serverKey))
    /\ \E sent \in SendResults :
          IF Verdict(serverKey, sent)
          THEN Goto("kex")
          ELSE Fail(AppError("Connection", "connect failed"))
    /\ UNCHANGED <<wire, pwConsulted, chanData, lock, uiVars, tunnelVars, inputVars, sftpVars>>

ConnectFail ==
    /\ pc \in {"connect", "kex"}
    /\ Did("connect", "error")
    /\ Fail(AppError("Connection", "connect failed"))
    /\ UNCHANGED <<events, pwConsulted, chanData, lock, uiVars, tunnelVars, inputVars, sftpVars>>

ConnectOk ==
    /\ pc = "kex"
    /\ Did("connect", "ok")
    /\ Goto("auth")
    /\ UNCHANGED <<events, pwConsulted, chanData, lock, uiVars, tunnelVars, inputVars, sftpVars>>

(***************************************************************************)
(* Authentication.                                                         *)
(***************************************************************************)
\* Mutant: the check of the authentication result is missing.
AfterAuth_Unchecked(authenticated) == Goto("emit_connected")

\* if !authenticated { return Err(Auth("Authentication failed")) }
AfterAuth(authenticated) ==
    IF authenticated
    THEN Goto("emit_connected")
    ELSE Fail(AppError("Auth", "Authentication failed"))

\* The synchronous head of the match on auth_method, up to the first await.
AuthBegin ==
    /\ pc = "auth"
    /\ UNCHANGED <<events, chanData, lock, uiVars, tunnelVars, inputVars, sftpVars>>
    /\ IF profile.auth_method = "Password"
       THEN /\ pwConsulted' = TRUE
            /\ UNCHANGED wire
            /\ IF password = "None"
               THEN Fail(AppError("Auth", "Password required"))
               ELSE Goto("auth_pw")
       ELSE /\ UNCHANGED pwConsulted
            /\ IF profile.key_pair_id = "None"
               THEN /\ UNCHANGED wire
                    /\ Fail(AppError("Auth", "No key pair selected"))
               ELSE \E loaded \in BOOLEAN :
                       IF loaded
                       THEN Did("load_secret_key", "ok") /\ Goto("auth_pk")
                       ELSE /\ Did("load_secret_key", "error")
                            /\ Fail(AppError("Auth", "key error"))

\* Mutant: the password is fetched before the public-key answer is looked at.
BothAfterPublicKey_PasswordFirst(pk_ok) ==
    /\ pwConsulted' = TRUE
    /\ IF password = "None"
       THEN Fail(AppError("Auth", "Password required for fallback"))
       ELSE IF pk_ok THEN Goto("emit_connected") ELSE Goto("auth_pw")

\* Mutant: no fallback, a rejected key is the final answer.
BothAfterPublicKey_NoFallback(pk_ok) ==
    /\ UNCHANGED pwConsulted
    /\ IF pk_ok
       THEN Goto("emit_connected")
       ELSE Fail(AppError("Auth", "Authentication failed"))

\* Both: what follows the public-key answer pk_ok.
BothAfterPublicKey(pk_ok) ==
    IF pk_ok
    THEN UNCHANGED pwConsulted /\ AfterAuth(TRUE)
    ELSE /\ pwConsulted' = TRUE
         /\ IF password = "None"
            THEN Fail(AppError("Auth", "Password required for fallback"))
            ELSE Goto("auth_pw")

AuthOutcomes == {"accepted", "rejected", "error"}

authenticate_publickey ==
    /\ pc = "auth_pk"
    /\ UNCHANGED <<events, chanData, lock, uiVars, tunnelVars, inputVars, sftpVars>>
    /\ \E outcome \in AuthOutcomes :
          /\ Did("authenticate_publickey", outcome)
          /\ IF outcome = "error"
             THEN UNCHANGED pwConsulted /\ Fail(AppError("Auth", "russh error"))
             ELSE IF profile.auth_method = "Both"
                  THEN BothAfterPublicKey(outcome = "accepted")
                  ELSE UNCHANGED pwConsulted /\ AfterAuth(outcome = "accepted")

authenticate_password ==
    /\ pc = "auth_pw"
    /\ UNCHANGED <<events, pwConsulted, chanData, lock, uiVars, tunnelVars, inputVars, sftpVars>>
    /\ \E outcome \in AuthOutcomes :
          /\ Did("authenticate_password", outcome)
          /\ IF outcome = "error"
             THEN Fail(AppError("Auth", "russh error"))
             ELSE AfterAuth(outcome = "accepted")

(***************************************************************************)
(* Connected, session channel, PTY, shell.                                 *)
(***************************************************************************)
EmitConnected ==
    /\ pc = "emit_connected"
    /\ Emit(SshEvent("Connected", NoId, None))
    /\ Goto("open_channel")
    /\ UNCHANGED <<wire, pwConsulted, chanData, lock, uiVars, tunnelVars, inputVars, sftpVars>>

\* One awaited setup call: Ok moves on, Err is a Connection error.
SetupCall(at, call, next) ==
    /\ pc = at
    /\ \E ok \in BOOLEAN :
          IF ok
          THEN Did(call, "ok") /\ Goto(next)
          ELSE Did(call, "error") /\ Fail(AppError("Connection", "russh error"))

channel_open_session ==
    /\ SetupCall("open_channel", "channel_open_session", "request_pty")
    /\ UNCHANGED <<events, pwConsulted, chanData, lock, uiVars, tunnelVars, inputVars, sftpVars>>

\* channel.request_pty(false, "xterm-256color", 80, 24, 0, 0, &[])
PtyCols == 80
PtyRows == 24
PtyRequest(ret) ==
    [call |-> "request_pty", ret |-> ret, term |-> "xterm-256color",
     cols |-> PtyCols, rows |-> PtyRows]

request_pty ==
    /\ pc = "request_pty"
    /\ UNCHANGED <<events, pwConsulted, chanData, lock, uiVars, tunnelVars, inputVars, sftpVars>>
    /\ \E ok \in BOOLEAN :
          IF ok
          THEN wire' = Append(wire, PtyRequest("ok")) /\ Goto("request_shell")
          ELSE /\ wire' = Append(wire, PtyRequest("error"))
               /\ Fail(AppError("Connection", "russh error"))

(***************************************************************************)
(* Tunnel listener tasks (tunnel::start_tunnel).                           *)
(***************************************************************************)
\* tokio::spawn of the listener task for one TunnelConfig; origin records
\* whether the profile or a StartTunnel command asked for it.
NewListener(tc, origin) ==
    [id |-> tc.id, addr |-> tc.addr, origin |-> origin, pc |-> "bind", err |-> "none",
     sent |-> <<>>]

start_tunnel(ls, tc, origin) == Append(ls, NewListener(tc, origin))

\* Mutant: the enabled flag is not looked at.
RECURSIVE StartEnabledTunnels_All(_, _)
StartEnabledTunnels_All(ls, tunnels) ==
    IF tunnels = <<>>
    THEN ls
    ELSE StartEnabledTunnels_All(start_tunnel(ls, Head(tunnels), "profile"), Tail(tunnels))

\* for tc in &profile.tunnels { if tc.enabled { start_tunnel(..) } }
RECURSIVE StartEnabledTunnels(_, _)
StartEnabledTunnels(ls, tunnels) ==
    IF tunnels = <<>>
    THEN ls
    ELSE StartEnabledTunnels(
             IF Head(tunnels).enabled
             THEN start_tunnel(ls, Head(tunnels), "profile")
             ELSE ls,
             Tail(tunnels))

\* Mutant: the tunnels are started before the shell request is answered.
request_shell_TunnelsFirst ==
    /\ pc = "request_shell"
    /\ UNCHANGED <<events, pwConsulted, chanData, lock, uiVars, conns, inputVars, sftpVars>>
    /\ listeners' = StartEnabledTunnels(listeners, profile.tunnels)
    /\ \E ok \in BOOLEAN :
          IF ok
          THEN Did("request_shell", "ok") /\ Goto("main")
          ELSE Did("request_shell", "error") /\ Fail(AppError("Connection", "russh error"))

request_shell ==
    /\ pc = "request_shell"
    /\ UNCHANGED <<events, pwConsulted, chanData, lock, uiVars, conns, inputVars, sftpVars>>
    /\ \E ok \in BOOLEAN :
          IF ok
          THEN /\ Did("request_shell", "ok")
               /\ listeners' = StartEnabledTunnels(listeners, profile.tunnels)
               /\ Goto("main")
          ELSE /\ Did("request_shell", "error")
               /\ Fail(AppError("Connection", "russh error"))
               /\ UNCHANGED listeners

(***************************************************************************)
(* Commands (app::SshCommand) and the UI end of the command channel.       *)
(***************************************************************************)
NoTunnel == [id |-> NoId, addr |-> "none", enabled |-> FALSE]
SshCommand(type, tc, id) == [type |-> type, tc |-> tc, id |-> id]

\* Payloads of the StartTunnel commands the UI sends: the id of the
\* profile's disabled tunnel on the address of its enabled one.
CmdTunnels == {[id |-> "t2", addr |-> "a1", enabled |-> FALSE]}

Commands ==
    {SshCommand("SendData", NoTunnel, NoId),
     SshCommand("Resize", NoTunnel, NoId),
     SshCommand("Disconnect", NoTunnel, NoId)}
    \cup {SshCommand("StartTunnel", tc, NoId) : tc \in CmdTunnels}
    \cup {SshCommand("StopTunnel", NoTunnel, id) : id \in {"t1"}}

\* The receiver lives in run_session: once that has returned, sends fail.
ReceiverAlive == pc \notin {"report_error", "report_disc", "done"}

\* cmd_tx.send(cmd).await of a command of the set cmds.
UiSendOf(cmds) ==
    /\ ReceiverAlive
    /\ ~cmdClosed
    /\ Len(cmdq) < CmdQueueCap
    /\ cmdSent < MaxCmds
    /\ \E cmd \in cmds : cmdq' = Append(cmdq, cmd)
    /\ cmdSent' = cmdSent + 1
    /\ UNCHANGED <<sessVars, events, cmdClosed, chanData, lock, tunnelVars, inputVars, sftpVars>>

UiSend == UiSendOf(Commands)

\* Every clone of the command sender is dropped.
UiDropSenders ==
    /\ ~cmdClosed
    /\ cmdClosed' = TRUE
    /\ UNCHANGED <<sessVars, events, cmdq, cmdSent, chanData, lock, tunnelVars, inputVars, sftpVars>>

(***************************************************************************)
(* Main loop of run_session: select! over cmd_rx.recv() and channel.wait().*)
(***************************************************************************)
\* Mutant: a failed channel call is ignored and the loop goes on.
ChannelWrite_ErrorIgnored(call) ==
    \E ok \in BOOLEAN :
        IF ok
        THEN Did(call, "ok") /\ Goto("main")
        ELSE Did(call, "error") /\ Goto("main")

\* A command whose handling is one awaited channel call.
ChannelWrite(call) ==
    \E ok \in BOOLEAN :
        IF ok
        THEN Did(call, "ok") /\ Goto("main")
        ELSE Did(call, "error") /\ Fail(AppError("Connection", "russh error"))

\* Mutant: StopTunnel falls through to the Disconnect arm.
HandleCommand_StopTunnelDisconnects ==
    /\ pc = "main"
    /\ cmdq # <<>>
    /\ cmdq' = Tail(cmdq)
    /\ UNCHANGED <<events, pwConsulted, cmdClosed, cmdSent, chanData, lock, conns, inputVars, sftpVars>>
    /\ LET cmd == Head(cmdq) IN
       CASE cmd.type = "SendData" ->
               ChannelWrite("data") /\ UNCHANGED listeners
         [] cmd.type = "Resize" ->
               ChannelWrite("window_change") /\ UNCHANGED listeners
         [] cmd.type = "StartTunnel" ->
               /\ listeners' = start_tunnel(listeners, cmd.tc, "command")
               /\ Goto("main")
               /\ UNCHANGED wire
         [] cmd.type \in {"StopTunnel", "Disconnect"} ->
               Goto("disc_eof") /\ UNCHANGED <<wire, listeners>>

HandleCommand ==
    /\ pc = "main"
    /\ cmdq # <<>>
    /\ cmdq' = Tail(cmdq)
    /\ UNCHANGED <<events, pwConsulted, cmdClosed, cmdSent, chanData, lock, conns, inputVars, sftpVars>>
    /\ LET cmd == Head(cmdq) IN
       CASE cmd.type = "SendData" ->
               ChannelWrite("data") /\ UNCHANGED listeners
         [] cmd.type = "Resize" ->
               ChannelWrite("window_change") /\ UNCHANGED listeners
         [] cmd.type = "StartTunnel" ->
               /\ listeners' = start_tunnel(listeners, cmd.tc, "command")
               /\ Goto("main")
               /\ UNCHANGED wire
         [] cmd.type = "StopTunnel" ->
               Goto("main") /\ UNCHANGED <<wire, listeners>>
         [] cmd.type = "Disconnect" ->
               Goto("disc_eof") /\ UNCHANGED <<wire, listeners>>

\* recv() returns Err: the queue is empty and every sender is gone.
CommandChannelClosed ==
    /\ pc = "main"
    /\ cmdq = <<>>
    /\ cmdClosed
    /\ Goto("disc_eof")
    /\ UNCHANGED <<events, wire, pwConsulted, uiVars, chanData, lock, tunnelVars, inputVars, sftpVars>>

\* Mutant: no EOF is sent on the channel before the transport disconnect.
DisconnectEof_Skipped ==
    /\ pc = "disc_eof"
    /\ Goto("disc_lock")
    /\ UNCHANGED <<events, wire, pwConsulted, uiVars, chanData, lock, tunnelVars, inputVars, sftpVars>>

\* let _ = channel.eof().await;
DisconnectEof ==
    /\ pc = "disc_eof"
    /\ \E ret \in {"ok", "error"} : Did("eof", ret)
    /\ Goto("disc_lock")
    /\ UNCHANGED <<events, pwConsulted, uiVars, chanData, lock, tunnelVars, inputVars, sftpVars>>

\* let sess = session_handle.lock().await;
DisconnectLock ==
    /\ pc = "disc_lock"
    /\ lock = 0
    /\ lock' = -1
    /\ Goto("disc_transport")
    /\ UNCHANGED <<events, wire, pwConsulted, uiVars, chanData, tunnelVars, inputVars, sftpVars>>

\* sess.disconnect(ByApplication, "User disconnected", "en").await ... ?
\* The guard is dropped when run_session returns.
DisconnectTransport ==
    /\ pc = "disc_transport"
    /\ UNCHANGED <<events, pwConsulted, uiVars, chanData, tunnelVars, inputVars, sftpVars>>
    /\ \E ok \in BOOLEAN :
          IF ok
          THEN /\ Did("disconnect: User disconnected", "ok")
               /\ Goto("emit_disc_none")
               /\ UNCHANGED lock
          ELSE /\ Did("disconnect: User disconnected", "error")
               /\ Fail(AppError("Connection", "russh error"))
               /\ lock' = 0

\* Mutant: the end of the session closes the command channel of the engine.
DisconnectDone_ClosesSftp ==
    /\ pc = "emit_disc_none"
    /\ Emit(SshEvent("Disconnected", NoId, None))
    /\ pc' = "done"
    /\ exitPath' = "user"
    /\ lock' = 0
    /\ scmdClosed' = TRUE
    /\ UNCHANGED <<result, wire, pwConsulted, uiVars, chanData, tunnelVars, inputVars,
                   spc, sevents, scmdq, scmdSent, remote, localfs, sops, conflict_policy,
                   response, frame, faults, sinkVars, pureVars>>

\* Mutant: after Disconnected(None) the closure reports a disconnect as well.
DisconnectDone_ReportsToo ==
    /\ pc = "emit_disc_none"
    /\ Emit(SshEvent("Disconnected", NoId, None))
    /\ pc' = "report_disc"
    /\ exitPath' = "user"
    /\ lock' = 0
    /\ UNCHANGED <<result, wire, pwConsulted, uiVars, chanData, tunnelVars, inputVars, sftpVars>>

DisconnectDone ==
    /\ pc = "emit_disc_none"
    /\ Emit(SshEvent("Disconnected", NoId, None))
    /\ pc' = "done"
    /\ exitPath' = "user"
    /\ lock' = 0
    /\ UNCHANGED <<result, wire, pwConsulted, uiVars, chanData, tunnelVars, inputVars, sftpVars>>

ChannelMsgs == {"Data", "ExitStatus", "Eof", "None", "Other"}

\* Mutant: the end of the channel is treated as a failure of the session.
OnChannelMsg_EofIsError(msg) ==
    CASE msg = "Data" ->
            /\ chanData < MaxChanData
            /\ chanData' = chanData + 1
            /\ Emit(SshEvent("Data", NoId, None))
            /\ Goto("main")
            /\ UNCHANGED wire
      [] msg \in {"Eof", "None"} ->
            /\ Did("wait", msg)
            /\ Fail(AppError("Connection", "channel closed"))
            /\ UNCHANGED <<events, chanData>>
      [] OTHER ->
            /\ Goto("main")
            /\ UNCHANGED <<events, wire, chanData>>

\* What the session task does with one result of channel.wait().  Of these
\* results wire keeps the ones that end the loop.
OnChannelMsg(msg) ==
    CASE msg = "Data" ->
            /\ chanData < MaxChanData
            /\ chanData' = chanData + 1
            /\ Emit(SshEvent("Data", NoId, None))
            /\ Goto("main")
            /\ UNCHANGED wire
      [] msg \in {"Eof", "None"} ->
            /\ Did("wait", msg)
            /\ Emit(SshEvent("Disconnected", NoId, None))
            /\ pc' = "done"
            /\ exitPath' = "remote"
            /\ UNCHANGED <<result, chanData>>
      [] OTHER ->
            /\ Goto("main")
            /\ UNCHANGED <<events, wire, chanData>>

ChannelMessage ==
    /\ pc = "main"
    /\ \E msg \in ChannelMsgs : OnChannelMsg(msg)
    /\ UNCHANGED <<pwConsulted, uiVars, lock, tunnelVars, inputVars, sftpVars>>

(***************************************************************************)
(* spawn_session's closure: report the error run_session returned.         *)
(***************************************************************************)
ReportError ==
    /\ pc = "report_error"
    /\ Emit(SshEvent("Error", NoId, to_string(result)))
    /\ Goto("report_disc")
    /\ UNCHANGED <<wire, pwConsulted, uiVars, chanData, lock, tunnelVars, inputVars, sftpVars>>

\* Mutant: the Disconnected event after an error carries no reason.
ReportDisconnected_NoReason ==
    /\ pc = "report_disc"
    /\ Emit(SshEvent("Disconnected", NoId, None))
    /\ Goto("done")
    /\ UNCHANGED <<wire, pwConsulted, uiVars, chanData, lock, tunnelVars, inputVars, sftpVars>>

ReportDisconnected ==
    /\ pc = "report_disc"
    /\ Emit(SshEvent("Disconnected", NoId, Some(to_string(result))))
    /\ Goto("done")
    /\ UNCHANGED <<wire, pwConsulted, uiVars, chanData, lock, tunnelVars, inputVars, sftpVars>>

(***************************************************************************)
(* run_tunnel: bind, TunnelEstablished, accept loop.                       *)
(***************************************************************************)
Listening(l) == l.pc \in {"emit_est", "accept"}

\* The address is held by another process or by a live listener of ours.
AddrInUse(addr, i) ==
    \/ addr \in extBound
    \/ \E j \in DOMAIN listeners : j # i /\ listeners[j].addr = addr /\ Listening(listeners[j])

\* TcpListener::bind(&bind_addr).await?
BindResult(i) == IF AddrInUse(listeners[i].addr, i) THEN "error" ELSE "ok"

\* Mutant: a failed bind is returned into the session task as its own error.
Bind_FatalToSession(i) ==
    /\ listeners[i].pc = "bind"
    /\ listeners' =
          [listeners EXCEPT ![i] =
              IF BindResult(i) = "ok"
              THEN [@ EXCEPT !.pc = "emit_est"]
              ELSE [@ EXCEPT !.pc = "emit_fail", !.err = "bind"]]
    /\ IF BindResult(i) = "ok" \/ pc # "main"
       THEN UNCHANGED <<pc, result, exitPath>>
       ELSE Fail(AppError("Tunnel", "bind"))
    /\ UNCHANGED <<wire, pwConsulted, events, uiVars, chanData, lock, conns, inputVars, sftpVars>>

Bind(i) ==
    /\ listeners[i].pc = "bind"
    /\ listeners' =
          [listeners EXCEPT ![i] =
              IF BindResult(i) = "ok"
              THEN [@ EXCEPT !.pc = "emit_est"]
              ELSE [@ EXCEPT !.pc = "emit_fail", !.err = "bind"]]
    /\ UNCHANGED <<sessVars, events, uiVars, chanData, lock, conns, inputVars, sftpVars>>

\* The session task has sent its Disconnected event.
SessionEnded == pc = "done"

\* A listener task sends an event on its clone of the event sink.
TunnelSend(l, type, msg) ==
    Append(l.sent, [type |-> type, id |-> l.id, msg |-> msg, late |-> SessionEnded])

TunnelEstablished(i) ==
    /\ listeners[i].pc = "emit_est"
    /\ listeners' = [listeners EXCEPT
                        ![i].pc = "accept",
                        ![i].sent = TunnelSend(listeners[i], "TunnelEstablished", None)]
    /\ UNCHANGED <<sessVars, events, uiVars, chanData, lock, conns, inputVars, sftpVars>>

NewConn(i) == [tunnel |-> i, pc |-> "lock"]

\* listener.accept().await returns a connection: tokio::spawn of its relay
\* task, and the loop accepts again.
AcceptConnection(i) ==
    /\ listeners[i].pc = "accept"
    /\ Len(conns) < MaxConns
    /\ conns' = Append(conns, NewConn(i))
    /\ UNCHANGED <<sessVars, events, uiVars, chanData, lock, listeners, inputVars, sftpVars>>

\* listener.accept().await? returns Err: run_tunnel returns it, dropping the
\* listener.
AcceptError(i) ==
    /\ listeners[i].pc = "accept"
    /\ listeners' = [listeners EXCEPT ![i].pc = "emit_fail", ![i].err = "accept"]
    /\ UNCHANGED <<sessVars, events, uiVars, chanData, lock, conns, inputVars, sftpVars>>

\* Mutant: after TunnelFailed the task binds again.
TunnelFailed_Retries(i) ==
    /\ listeners[i].pc = "emit_fail"
    /\ listeners' = [listeners EXCEPT
                        ![i].pc = "bind",
                        ![i].sent = TunnelSend(listeners[i], "TunnelFailed", <<listeners[i].err>>)]
    /\ UNCHANGED <<sessVars, events, uiVars, chanData, lock, conns, inputVars, sftpVars>>

\* start_tunnel's Err arm: send TunnelFailed(tunnel_id, e.to_string()).
TunnelFailed(i) ==
    /\ listeners[i].pc = "emit_fail"
    /\ listeners' = [listeners EXCEPT
                        ![i].pc = "stopped",
                        ![i].sent = TunnelSend(listeners[i], "TunnelFailed", <<listeners[i].err>>)]
    /\ UNCHANGED <<sessVars, events, uiVars, chanData, lock, conns, inputVars, sftpVars>>

(***************************************************************************)
(* The relay task of one accepted connection.                              *)
(***************************************************************************)
\* let sess = session.lock().await;
ConnLock(c) ==
    /\ conns[c].pc = "lock"
    /\ lock = 0
    /\ lock' = c
    /\ conns' = [conns EXCEPT ![c].pc = "open"]
    /\ UNCHANGED <<sessVars, events, uiVars, chanData, listeners, inputVars, sftpVars>>

\* Mutant: drop(sess) is missing, the guard lives as long as the relay.
GuardAfterOpen_KeptWhileRelaying(c, ok) == IF ok THEN c ELSE 0

\* Holder of the guard once channel_open_direct_tcpip has answered:
\* Err returns (dropping sess), Ok runs drop(sess).
GuardAfterOpen(c, ok) == 0

\* Mutant: a failed channel open is returned to the accept loop, as if it
\* were awaited there with `?`.
ConnOpen_FailureStopsListener(c) ==
    /\ conns[c].pc = "open"
    /\ \E ok \in BOOLEAN :
          /\ lock' = GuardAfterOpen(c, ok)
          /\ conns' = [conns EXCEPT ![c].pc = IF ok THEN "relay" ELSE "closed"]
          /\ listeners' =
                IF ok \/ listeners[conns[c].tunnel].pc # "accept"
                THEN listeners
                ELSE [listeners EXCEPT ![conns[c].tunnel].pc = "emit_fail",
                                       ![conns[c].tunnel].err = "open"]
    /\ UNCHANGED <<sessVars, events, uiVars, chanData, inputVars, sftpVars>>

ConnOpen(c) ==
    /\ conns[c].pc = "open"
    /\ \E ok \in BOOLEAN :
          /\ lock' = GuardAfterOpen(c, ok)
          /\ conns' = [conns EXCEPT ![c].pc = IF ok THEN "relay" ELSE "closed"]
    /\ UNCHANGED <<sessVars, events, uiVars, chanData, listeners, inputVars, sftpVars>>

RelayEvents == {"tcp_data", "tcp_data_write_err", "tcp_eof", "tcp_err",
                "chan_data", "chan_data_write_err", "chan_eof", "chan_none", "chan_other"}

\* One round of the relay loop's select!: TRUE when the loop goes on.
RelayContinues(ev) == ev \in {"tcp_data", "chan_data", "chan_other"}

\* The guard, should this task still hold it, is dropped when the task ends.
ConnRelay(c) ==
    /\ conns[c].pc = "relay"
    /\ \E continues \in {RelayContinues(ev) : ev \in RelayEvents} :
          IF continues
          THEN UNCHANGED <<conns, lock>>
          ELSE /\ conns' = [conns EXCEPT ![c].pc = "closed"]
               /\ lock' = IF lock = c THEN 0 ELSE lock
    /\ UNCHANGED <<sessVars, events, uiVars, chanData, listeners, inputVars, sftpVars>>

(***************************************************************************)
(* The whole system.                                                       *)
(***************************************************************************)
SessionStep ==
    \/ check_server_key
    \/ ConnectFail
    \/ ConnectOk
    \/ AuthBegin
    \/ authenticate_publickey
    \/ authenticate_password
    \/ EmitConnected
    \/ channel_open_session
    \/ request_pty
    \/ request_shell
    \/ HandleCommand
    \/ CommandChannelClosed
    \/ DisconnectEof
    \/ DisconnectLock
    \/ DisconnectTransport
    \/ DisconnectDone
    \/ ChannelMessage
    \/ ReportError
    \/ ReportDisconnected

ListenerStep ==
    \E i \in DOMAIN listeners :
        \/ Bind(i)
        \/ TunnelEstablished(i)
        \/ AcceptConnection(i)
        \/ AcceptError(i)
        \/ TunnelFailed(i)

ConnStep ==
    \E c \in DOMAIN conns :
        \/ ConnLock(c)
        \/ ConnOpen(c)
        \/ ConnRelay(c)

Next ==
    \/ SessionStep
    \/ ListenerStep
    \/ ConnStep
    \/ UiSend
    \/ UiDropSenders

Spec == Init /\ [][Next]_vars

(***************************************************************************)
(* The session controller: the whole session task, the UI and the          *)
(* listeners the session starts.  No local connection arrives, so no relay *)
(* task exists.                                                            *)
(***************************************************************************)
ListenerLife ==
    \E i \in DOMAIN listeners :
        \/ Bind(i)
        \/ TunnelEstablished(i)
        \/ AcceptError(i)
        \/ TunnelFailed(i)

NextSession ==
    \/ SessionStep
    \/ ListenerLife
    \/ UiSend
    \/ UiDropSenders

SpecSession == Init /\ [][NextSession]_vars

(***************************************************************************)
(* The tunnel manager: the whole session task, the listeners, the relay    *)
(* tasks and the guard of the transport handle.  The UI sends only the     *)
(* commands that concern tunnels or end the session.                       *)
(***************************************************************************)
TunnelCommands ==
    {cmd \in Commands : cmd.type \in {"StopTunnel", "Disconnect"}}

UiSendTunnel == UiSendOf(TunnelCommands)

NextTunnel ==
    \/ SessionStep
    \/ ListenerStep
    \/ ConnStep
    \/ UiSendTunnel
    \/ UiDropSenders

SpecTunnel == Init /\ [][NextTunnel]_vars

(***************************************************************************)
(* Session start alone, for any profile and credentials: the task runs     *)
(* from spawn to the main loop (or to its error report) and the listeners  *)
(* it started bind and report.  The environment is quiet: the UI sends no  *)
(* command, the shell channel delivers nothing and no local connection     *)
(* arrives.                                                                *)
(***************************************************************************)
SetupStep ==
    \/ check_server_key
    \/ ConnectFail
    \/ ConnectOk
    \/ AuthBegin
    \/ authenticate_publickey
    \/ authenticate_password
    \/ EmitConnected
    \/ channel_open_session
    \/ request_pty
    \/ request_shell
    \/ ReportError
    \/ ReportDisconnected

ListenerStart ==
    \E i \in DOMAIN listeners :
        \/ Bind(i)
        \/ TunnelEstablished(i)
        \/ TunnelFailed(i)

NextSetup ==
    \/ SetupStep
    \/ ListenerStart

SpecSetup == InitSetup /\ [][NextSetup]_vars

(***************************************************************************)
(* Tunnels started by command: the whole session task and its listeners,   *)
(* with a UI that sends StartTunnel for the id of the profile's enabled    *)
(* tunnel, once on another address and once on the same address.           *)
(***************************************************************************)
RestartTunnels ==
    {[id |-> "t1", addr |-> a, enabled |-> TRUE] : a \in Addrs}

RestartCommands ==
    {SshCommand("StartTunnel", tc, NoId) : tc \in RestartTunnels}

UiSendRestart == UiSendOf(RestartCommands)

NextRestart ==
    \/ SessionStep
    \/ ListenerLife
    \/ UiSendRestart
    \/ UiDropSenders

SpecRestart == Init /\ [][NextRestart]_vars

(***************************************************************************)
(* The SFTP engine.  Every await of the source is a step boundary; an Err  *)
(* of a request is chosen by the environment.                              *)
(***************************************************************************)
SftpEmit(e) == sevents' = Append(sevents, e)

\* An Err(msg) reaches the arm of the command through the `?` of every
\* caller.
Raise(tag, path) ==
    /\ spc' = "cmd_err"
    /\ frame' = [frame EXCEPT !.err = [tag |-> tag, path |-> path]]

\* The outcomes of a request the server would grant (can) or not: a granted
\* request may still fail, on the transport or on the server.
Outcomes(can) ==
    IF ~can THEN {"err"}
    ELSE IF faults < MaxFaults THEN {"ok", "fault"} ELSE {"ok"}
Charge(r) == faults' = IF r = "fault" THEN faults + 1 ELSE faults

\* A request that changes a file system, with its result.
Op(op, key, r) == [op |-> op, key |-> key, ok |-> r = "ok", how |-> "request"]
Logged(op, key, r) == sops' = Append(sops, Op(op, key, r))

(***************************************************************************)
(* run_sftp_session: setup and command loop.                               *)
(***************************************************************************)
\* `?` on an Err of the setup: run_sftp_session returns the AppError to the
\* closure of spawn_sftp_session.
\* The error is kept by the text of its message.
SetupFail(text) ==
    /\ spc' = "s_report_error"
    /\ frame' = [frame EXCEPT !.err = [tag |-> text, path |-> NoPath]]

\* The results of establish_session(&profile, password, key_passphrase,
\* ssh_event_tx): an authenticated transport of the engine's own, or the
\* AppError of the connect or of the authentication.
establish_session ==
    {[ok |-> TRUE, text |-> "none"],
     [ok |-> FALSE, text |-> "Connection error"],
     [ok |-> FALSE, text |-> "Authentication failed"]}

\* let session = establish_session(..).await?;
SftpEstablish ==
    /\ spc = "s_connect"
    /\ \E r \in establish_session :
          IF r.ok
          THEN spc' = "s_channel" /\ UNCHANGED frame
          ELSE SetupFail(r.text)
    /\ UNCHANGED <<sshVars, sevents, scmdq, scmdClosed, scmdSent, remote, localfs, sops,
                   conflict_policy, response, faults>>

\* One awaited call of the setup after establish_session: on Ok the task
\* goes on to next, on Err it returns AppError::Connection with text.
SftpSetupCall(at, next, text) ==
    /\ spc = at
    /\ \E ok \in BOOLEAN :
          IF ok
          THEN spc' = next /\ UNCHANGED frame
          ELSE SetupFail(text)
    /\ UNCHANGED <<sshVars, sevents, scmdq, scmdClosed, scmdSent, remote, localfs, sops,
                   conflict_policy, response, faults>>

\* session.channel_open_session()
SftpOpenChannel == SftpSetupCall("s_channel", "s_subsystem", "Failed to open channel")

\* channel.request_subsystem(true, "sftp")
SftpRequestSubsystem ==
    SftpSetupCall("s_subsystem", "s_init", "Failed to request SFTP subsystem")

\* Mutant: Connected is sent before the SFTP session is initialised.
SftpInit_ConnectedFirst ==
    /\ spc = "s_init"
    /\ SftpEmit(SftpEvent("Connected", "none", NoPath))
    /\ \E ok \in BOOLEAN :
          IF ok
          THEN spc' = "s_loop" /\ UNCHANGED frame
          ELSE SetupFail("Failed to initialize SFTP session")
    /\ UNCHANGED <<sshVars, scmdq, scmdClosed, scmdSent, remote, localfs, sops,
                   conflict_policy, response, faults>>

\* SftpSession::new(channel.into_stream()); on Ok Connected is sent and the
\* command loop begins.
SftpInit ==
    /\ spc = "s_init"
    /\ \E ok \in BOOLEAN :
          IF ok
          THEN /\ SftpEmit(SftpEvent("Connected", "none", NoPath))
               /\ spc' = "s_loop"
               /\ UNCHANGED frame
          ELSE /\ SetupFail("Failed to initialize SFTP session")
               /\ UNCHANGED sevents
    /\ UNCHANGED <<sshVars, scmdq, scmdClosed, scmdSent, remote, localfs, sops,
                   conflict_policy, response, faults>>

\* spawn_sftp_session's Err arm: Error(e.to_string()), then Disconnected.
SftpReportError ==
    /\ spc = "s_report_error"
    /\ SftpEmit(SftpEvent("Error", frame.err.tag, NoPath))
    /\ spc' = "s_report_disc"
    /\ UNCHANGED <<sshVars, scmdq, scmdClosed, scmdSent, remote, localfs, sops,
                   conflict_policy, response, frame, faults>>

SftpReportDisconnected ==
    /\ spc = "s_report_disc"
    /\ SftpEmit(SftpEvent("Disconnected", "none", NoPath))
    /\ spc' = "s_done"
    /\ UNCHANGED <<sshVars, scmdq, scmdClosed, scmdSent, remote, localfs, sops,
                   conflict_policy, response, frame, faults>>


(***************************************************************************)
(* ensure_remote_dir and remove_remote_entry_recursive.                    *)
(***************************************************************************)
\* The call of ensure_remote_dir(path) up to its first request: where the
\* task stands then, and with which locals.
ensure_remote_dir(fr, path, ret) ==
    LET normalized == trim_end_matches(path, Slash)
        trivial == normalized = <<>> \/ normalized = <<Dot>> \/ normalized = <<Slash>>
        segs == Segments(normalized)
    IN IF trivial \/ segs = <<>>
       THEN [frame |-> fr, spc |-> ret]
       ELSE [frame |-> [fr EXCEPT !.en =
                          [segs |-> segs,
                           current |-> IF starts_with(normalized, Slash)
                                       THEN <<Slash>> ELSE <<Dot>>,
                           ret |-> ret]],
             spc |-> "en_meta"]

\* After a segment is done: the next segment, or return Ok(()).
EnsureNext(current, rest) ==
    IF rest = <<>>
    THEN /\ spc' = frame.en.ret
         /\ frame' = [frame EXCEPT !.en = NoEn]
    ELSE /\ spc' = "en_meta"
         /\ frame' = [frame EXCEPT !.en.current = current, !.en.segs = rest]

\* Mutant: without `if metadata.is_dir() { continue; }`.
EnsureMeta_NoDirCheck ==
    /\ spc = "en_meta"
    /\ LET current == join_remote_path(frame.en.current, Head(frame.en.segs))
           rest == Tail(frame.en.segs)
           key == Resolve(current)
       IN \E r \in Outcomes(CanStat(remote, key)) :
             /\ Charge(r)
             /\ spc' = IF r = "ok" THEN "en_rmfile" ELSE "en_create"
             /\ frame' = [frame EXCEPT !.en.current = current, !.en.segs = rest]
    /\ UNCHANGED <<sshVars, sevents, scmdq, scmdClosed, scmdSent, remote, localfs,
                   sops, conflict_policy, response>>

\* Mutant: whatever exists at a segment is taken for a directory.
EnsureMeta_KeepsNonDirectory ==
    /\ spc = "en_meta"
    /\ LET current == join_remote_path(frame.en.current, Head(frame.en.segs))
           rest == Tail(frame.en.segs)
           key == Resolve(current)
       IN \E r \in Outcomes(CanStat(remote, key)) :
             /\ Charge(r)
             /\ IF r = "ok"
                THEN EnsureNext(current, rest)
                ELSE /\ spc' = "en_create"
                     /\ frame' = [frame EXCEPT !.en.current = current, !.en.segs = rest]
    /\ UNCHANGED <<sshVars, sevents, scmdq, scmdClosed, scmdSent, remote, localfs,
                   sops, conflict_policy, response>>

\* current = join_remote_path(&current, segment); sftp.metadata(&current)
EnsureMeta ==
    /\ spc = "en_meta"
    /\ LET current == join_remote_path(frame.en.current, Head(frame.en.segs))
           rest == Tail(frame.en.segs)
           key == Resolve(current)
       IN \E r \in Outcomes(CanStat(remote, key)) :
             /\ Charge(r)
             /\ IF r = "ok" /\ remote[key].is_dir
                THEN EnsureNext(current, rest)
                ELSE /\ spc' = IF r = "ok" THEN "en_rmfile" ELSE "en_create"
                     /\ frame' = [frame EXCEPT !.en.current = current, !.en.segs = rest]
    /\ UNCHANGED <<sshVars, sevents, scmdq, scmdClosed, scmdSent, remote, localfs,
                   sops, conflict_policy, response>>

\* sftp.remove_file(&current) of the entry that is no directory
EnsureRemoveFile ==
    /\ spc = "en_rmfile"
    /\ LET key == Resolve(frame.en.current) IN
       \E r \in Outcomes(CanRemoveFile(remote, key)) :
          /\ Charge(r)
          /\ Logged("remove_file", key, r)
          /\ IF r = "ok"
             THEN /\ remote' = Del(remote, key)
                  /\ spc' = "en_create"
                  /\ UNCHANGED frame
             ELSE /\ Raise("Failed to replace non-directory", frame.en.current)
                  /\ UNCHANGED remote
    /\ UNCHANGED <<sshVars, sevents, scmdq, scmdClosed, scmdSent, localfs, conflict_policy,
                   response>>

\* sftp.create_dir(&current)
EnsureCreate ==
    /\ spc = "en_create"
    /\ LET key == Resolve(frame.en.current) IN
       \E r \in Outcomes(CanCreateDir(remote, key)) :
          /\ Charge(r)
          /\ Logged("create_dir", key, r)
          /\ IF r = "ok"
             THEN /\ remote' = Put(remote, key, DirEntry)
                  /\ EnsureNext(frame.en.current, frame.en.segs)
             ELSE /\ Raise("Failed to create directory", frame.en.current)
                  /\ UNCHANGED remote
    /\ UNCHANGED <<sshVars, sevents, scmdq, scmdClosed, scmdSent, localfs, conflict_policy,
                   response>>


\* The call of remove_remote_entry_recursive(path).
remove_remote_entry_recursive(fr, path, ret) ==
    [frame |-> [fr EXCEPT !.rm = [stack |-> <<[path |-> path, visited |-> FALSE]>>,
                                  current |-> NoPath, ret |-> ret]],
     spc |-> "rm_meta"]

\* After an entry is done: pop the next one, or return Ok(()).
RemoveNext ==
    IF frame.rm.stack = <<>>
    THEN /\ spc' = frame.rm.ret
         /\ frame' = [frame EXCEPT !.rm = NoRm]
    ELSE /\ spc' = "rm_meta"
         /\ UNCHANGED frame

\* Vec::pop takes the last element.
Top(stack) == stack[Len(stack)]
Pop(stack) == SubSeq(stack, 1, Len(stack) - 1)

\* Mutant: a directory is removed without listing it first.
RemoveMeta_NotRecursive ==
    /\ spc = "rm_meta"
    /\ LET top == Top(frame.rm.stack)
           key == Resolve(top.path)
           popped == [frame EXCEPT !.rm.stack = Pop(@), !.rm.current = top.path]
       IN \E r \in Outcomes(CanStat(remote, key)) :
             /\ Charge(r)
             /\ frame' = popped
             /\ spc' = IF r # "ok" THEN "rm_any_file"
                       ELSE IF ~remote[key].is_dir THEN "rm_file" ELSE "rm_dir"
    /\ UNCHANGED <<sshVars, sevents, scmdq, scmdClosed, scmdSent, remote, localfs,
                   sops, conflict_policy, response>>

\* stack.pop(); sftp.metadata(&current)
RemoveMeta ==
    /\ spc = "rm_meta"
    /\ LET top == Top(frame.rm.stack)
           key == Resolve(top.path)
           popped == [frame EXCEPT !.rm.stack = Pop(@), !.rm.current = top.path]
       IN \E r \in Outcomes(CanStat(remote, key)) :
             /\ Charge(r)
             /\ IF r # "ok"
                THEN spc' = "rm_any_file" /\ frame' = popped
                ELSE IF ~remote[key].is_dir
                THEN spc' = "rm_file" /\ frame' = popped
                ELSE IF top.visited
                THEN spc' = "rm_dir" /\ frame' = popped
                ELSE /\ spc' = "rm_readdir"
                     /\ frame' = [popped EXCEPT !.rm.stack =
                                     Append(@, [path |-> top.path, visited |-> TRUE])]
    /\ UNCHANGED <<sshVars, sevents, scmdq, scmdClosed, scmdSent, remote, localfs,
                   sops, conflict_policy, response>>

\* Mutant: the directory that was listed is pushed again, not visited.
RemoveReadDir_PushesAgain ==
    /\ spc = "rm_readdir"
    /\ LET key == Resolve(frame.rm.current) IN
       \E r \in Outcomes(CanReadDir(remote, key)) :
          /\ Charge(r)
          /\ IF r = "ok"
             THEN \E entries \in Orders(Children(remote, key)) :
                     /\ frame' = [frame EXCEPT !.rm.stack =
                                     Append(@, [path |-> frame.rm.current,
                                                visited |-> FALSE])
                                     \o [i \in DOMAIN entries |->
                                             [path |-> join_remote_path(frame.rm.current,
                                                                        Name(entries[i])),
                                              visited |-> FALSE]]]
                     /\ spc' = "rm_meta"
             ELSE Raise("Failed to list", frame.rm.current)
    /\ UNCHANGED <<sshVars, sevents, scmdq, scmdClosed, scmdSent, remote, localfs, sops,
                   conflict_policy, response>>

\* sftp.read_dir(&current): every entry is pushed, not yet visited.
RemoveReadDir ==
    /\ spc = "rm_readdir"
    /\ LET key == Resolve(frame.rm.current) IN
       \E r \in Outcomes(CanReadDir(remote, key)) :
          /\ Charge(r)
          /\ IF r = "ok"
             THEN \E entries \in Orders(Children(remote, key)) :
                     /\ frame' = [frame EXCEPT !.rm.stack =
                                     @ \o [i \in DOMAIN entries |->
                                             [path |-> join_remote_path(frame.rm.current,
                                                                        Name(entries[i])),
                                              visited |-> FALSE]]]
                     /\ spc' = "rm_meta"
             ELSE Raise("Failed to list", frame.rm.current)
    /\ UNCHANGED <<sshVars, sevents, scmdq, scmdClosed, scmdSent, remote, localfs, sops,
                   conflict_policy, response>>

\* One removing request of remove_remote_entry_recursive at label at; when it
\* fails the task goes to orElse, or raises when orElse is "raise".
RemoveRequest(at, op, can, tag, orElse) ==
    /\ spc = at
    /\ LET key == Resolve(frame.rm.current) IN
       \E r \in Outcomes(can) :
          /\ Charge(r)
          /\ Logged(op, key, r)
          /\ IF r = "ok"
             THEN remote' = Del(remote, key) /\ RemoveNext
             ELSE IF orElse = "raise"
             THEN Raise(tag, frame.rm.current) /\ UNCHANGED remote
             ELSE spc' = orElse /\ UNCHANGED <<remote, frame>>
    /\ UNCHANGED <<sshVars, sevents, scmdq, scmdClosed, scmdSent, localfs, conflict_policy,
                   response>>

\* sftp.remove_dir(&current) of a visited directory
RemoveDir ==
    RemoveRequest("rm_dir", "remove_dir", CanRemoveDir(remote, Resolve(frame.rm.current)),
                  "Failed to remove directory", "raise")

\* sftp.remove_file(&current) of a file
RemoveFile ==
    RemoveRequest("rm_file", "remove_file", CanRemoveFile(remote, Resolve(frame.rm.current)),
                  "Failed to remove file", "raise")

\* metadata failed: sftp.remove_file(&current), and if that fails ...
RemoveAnyFile ==
    RemoveRequest("rm_any_file", "remove_file",
                  CanRemoveFile(remote, Resolve(frame.rm.current)), "none", "rm_any_dir")

\* ... sftp.remove_dir(&current)
RemoveAnyDir ==
    RemoveRequest("rm_any_dir", "remove_dir",
                  CanRemoveDir(remote, Resolve(frame.rm.current)), "Failed to remove", "raise")


(***************************************************************************)
(* ask_transfer_conflict and the decisions of the UI.                      *)
(***************************************************************************)
Decisions == {"KeepExisting", "ReplaceWithIncoming"}

\* A decision the engine acts on: how is "asked" when the UI gave it for
\* this conflict alone, "asked_all" when it gave it with apply_to_all,
\* "remembered" when conflict_policy.apply_all supplied it.
Decided(decision, key, how) == [Op(decision, key, "ok") EXCEPT !.how = how]

\* ask_transfer_conflict(event_tx, path, direction, is_dir, conflict_policy)
\* up to its first await, called with the frame fr; site is where the
\* caller matches on the decision, key the resolved target.
ask_transfer_conflict(fr, path, key, direction, is_dir, site) ==
    IF conflict_policy # "None"
    THEN /\ frame' = [fr EXCEPT !.ask = [path |-> path, key |-> key,
                                         decision |-> conflict_policy, ret |-> site]]
         /\ spc' = site
         /\ sops' = Append(sops, Decided(conflict_policy, key, "remembered"))
         /\ UNCHANGED <<sevents, response>>
    ELSE /\ SftpEmit([SftpEvent("TransferConflict", direction, path) EXCEPT
                        !.is_dir = is_dir])
         /\ response' = [NoResponse EXCEPT !.state = "pending"]
         /\ frame' = [fr EXCEPT !.ask = [path |-> path, key |-> key,
                                         decision |-> "none", ret |-> site]]
         /\ spc' = "ask_wait"
         /\ UNCHANGED sops

\* Mutant: the decision of every response is remembered.
AskRecv_RemembersAlways ==
    /\ spc = "ask_wait"
    /\ response.state = "answered"
    /\ conflict_policy' = response.decision
    /\ sops' = Append(sops, Decided(response.decision, frame.ask.key,
                                    IF response.apply_to_all THEN "asked_all" ELSE "asked"))
    /\ frame' = [frame EXCEPT !.ask.decision = response.decision]
    /\ spc' = frame.ask.ret
    /\ response' = NoResponse
    /\ UNCHANGED <<sshVars, sevents, scmdq, scmdClosed, scmdSent, remote, localfs, faults>>

\* Mutant: the engine does not wait for the response and replaces.
AskRecv_DoesNotWait ==
    /\ spc = "ask_wait"
    /\ response.state \in {"pending", "answered"}
    /\ sops' = Append(sops, Decided("ReplaceWithIncoming", frame.ask.key, "asked"))
    /\ frame' = [frame EXCEPT !.ask.decision = "ReplaceWithIncoming"]
    /\ spc' = frame.ask.ret
    /\ UNCHANGED <<sshVars, sevents, scmdq, scmdClosed, scmdSent, remote, localfs, faults,
                   conflict_policy, response>>

\* response_rx.recv().await: the response, remembered when apply_to_all;
\* or Err when the response sender was dropped.
\* Mutant: a dropped response channel counts as ReplaceWithIncoming.
AskRecv_DropMeansReplace ==
    /\ spc = "ask_wait"
    /\ \/ /\ response.state = "answered"
          /\ conflict_policy' = IF response.apply_to_all
                                THEN response.decision ELSE conflict_policy
          /\ sops' = Append(sops, Decided(response.decision, frame.ask.key,
                                          IF response.apply_to_all
                                          THEN "asked_all" ELSE "asked"))
          /\ frame' = [frame EXCEPT !.ask.decision = response.decision]
          /\ spc' = frame.ask.ret
       \/ /\ response.state = "dropped"
          /\ sops' = Append(sops, Decided("ReplaceWithIncoming", frame.ask.key, "asked"))
          /\ frame' = [frame EXCEPT !.ask.decision = "ReplaceWithIncoming"]
          /\ spc' = frame.ask.ret
          /\ UNCHANGED conflict_policy
    /\ response' = NoResponse
    /\ UNCHANGED <<sshVars, sevents, scmdq, scmdClosed, scmdSent, remote, localfs, faults>>

AskRecv ==
    /\ spc = "ask_wait"
    /\ \/ /\ response.state = "answered"
          /\ conflict_policy' = IF response.apply_to_all
                                THEN response.decision ELSE conflict_policy
          /\ sops' = Append(sops, Decided(response.decision, frame.ask.key,
                                          IF response.apply_to_all
                                          THEN "asked_all" ELSE "asked"))
          /\ frame' = [frame EXCEPT !.ask.decision = response.decision]
          /\ spc' = frame.ask.ret
       \/ /\ response.state = "dropped"
          /\ Raise("Conflict resolution canceled", frame.ask.path)
          /\ UNCHANGED <<conflict_policy, sops>>
    /\ response' = NoResponse
    /\ UNCHANGED <<sshVars, sevents, scmdq, scmdClosed, scmdSent, remote, localfs, faults>>

\* The conflict dialog answers: response_tx.send(SftpConflictResponse {..})
UiRespond ==
    /\ response.state = "pending"
    /\ \E d \in Decisions, all \in BOOLEAN :
          response' = [state |-> "answered", decision |-> d, apply_to_all |-> all]
    /\ UNCHANGED <<sshVars, spc, sevents, scmdq, scmdClosed, scmdSent, remote, localfs,
                   sops, conflict_policy, frame, faults>>

\* The event, and with it response_tx, is dropped without an answer.
UiDropResponse ==
    /\ response.state = "pending"
    /\ response' = [response EXCEPT !.state = "dropped"]
    /\ UNCHANGED <<sshVars, spc, sevents, scmdq, scmdClosed, scmdSent, remote, localfs,
                   sops, conflict_policy, frame, faults>>

(***************************************************************************)
(* Upload: upload_entry_recursive and upload_file.  A local path is the    *)
(* sequence of its components after the root.                              *)
(***************************************************************************)
chunk_size == 32768

Min(a, b) == IF a < b THEN a ELSE b

\* Path::file_name(), or the given default when there is none.
file_name(key, default) == IF Len(key) > 1 THEN Name(key) ELSE default

\* The characters of "unknown".
Unknown == <<"u", "n", "k", "n", "o", "w", "n">>

\* fn join_remote_with_relative(base, relative): relative is the sequence of
\* the normal components.
RECURSIVE join_remote_with_relative(_, _)
join_remote_with_relative(base, relative) ==
    IF relative = <<>> THEN base
    ELSE join_remote_with_relative(join_remote_path(base, Head(relative)), Tail(relative))

\* Path::strip_prefix(base)
strip_prefix(key, base) == SubSeq(key, Len(base) + 1, Len(key))

Progress(name, bytes, total) ==
    [SftpEvent("TransferProgress", "none", name) EXCEPT !.bytes = bytes, !.total = total]
Complete(name) == SftpEvent("TransferComplete", "none", name)

\* The call of upload_file(local_file, remote_file) up to its first await.
upload_file(fr, local_file, remote_file, ret) ==
    [frame |-> [fr EXCEPT !.xfer.local_file = local_file,
                          !.xfer.remote_file = remote_file,
                          !.xfer.name = NoPath,
                          !.xfer.total = 0,
                          !.xfer.written = 0,
                          !.xfer.ret = ret],
     spc |-> "uf_meta"]

\* tokio::fs::metadata(&local): a directory is walked, a file is uploaded
\* to remote, or into remote when that ends with '/'.
UploadStat ==
    /\ spc = "up_stat"
    /\ LET local == frame.cmd.local
           rpath == frame.cmd.path
           remote_file ==
               IF ends_with(rpath, Slash)
               THEN join_remote_path(trim_end_matches(rpath, Slash),
                                     file_name(local, Unknown))
               ELSE rpath
           call == upload_file(frame, local, remote_file, "cmd_ok")
       IN \E r \in Outcomes(CanStat(localfs, local)) :
             /\ Charge(r)
             /\ IF r # "ok"
                THEN Raise("Failed to read local path", local)
                ELSE IF localfs[local].is_dir
                THEN spc' = "up_root_meta" /\ UNCHANGED frame
                ELSE spc' = call.spc /\ frame' = call.frame
    /\ UNCHANGED <<sshVars, sevents, scmdq, scmdClosed, scmdSent, remote, localfs, sops,
                   conflict_policy, response>>

\* Mutant: a directory at the target of a directory is a conflict too.
DirTarget_AsksForAnyEntry(at, path, site, ret) ==
    /\ spc = at
    /\ LET key == Resolve(path)
           call == ensure_remote_dir(frame, path, ret)
       IN \E r \in Outcomes(CanStat(remote, key)) :
             /\ Charge(r)
             /\ IF r = "ok"
                THEN ask_transfer_conflict(frame, path, key, "Upload",
                                           remote[key].is_dir, site)
                ELSE /\ spc' = call.spc
                     /\ frame' = call.frame
                     /\ UNCHANGED <<sevents, sops, response>>
    /\ UNCHANGED <<sshVars, scmdq, scmdClosed, scmdSent, remote, localfs, conflict_policy>>

\* A directory is about to be made at path: sftp.metadata(path); what is
\* there and is no directory is a conflict, decided at site; otherwise
\* ensure_remote_dir(path), which returns to ret.
DirTarget(at, path, site, ret) ==
    /\ spc = at
    /\ LET key == Resolve(path)
           call == ensure_remote_dir(frame, path, ret)
       IN \E r \in Outcomes(CanStat(remote, key)) :
             /\ Charge(r)
             /\ IF r = "ok" /\ ~remote[key].is_dir
                THEN ask_transfer_conflict(frame, path, key, "Upload", FALSE, site)
                ELSE /\ spc' = call.spc
                     /\ frame' = call.frame
                     /\ UNCHANGED <<sevents, sops, response>>
    /\ UNCHANGED <<sshVars, scmdq, scmdClosed, scmdSent, remote, localfs, conflict_policy>>

\* match decision: KeepExisting goes to keep; ReplaceWithIncoming calls
\* remove_remote_entry_recursive(path), which returns to ret.
UploadDecided(at, path, keep, ret) ==
    /\ spc = at
    /\ LET call == remove_remote_entry_recursive(frame, path, ret) IN
       IF frame.ask.decision = "KeepExisting"
       THEN spc' = keep /\ UNCHANGED frame
       ELSE spc' = call.spc /\ frame' = call.frame
    /\ UNCHANGED <<sshVars, sevents, scmdq, scmdClosed, scmdSent, remote, localfs, sops,
                   conflict_policy, response, faults>>

\* ensure_remote_dir(path) after the replaced entry is removed.
UploadEnsure(at, path, ret) ==
    /\ spc = at
    /\ LET call == ensure_remote_dir(frame, path, ret) IN
       spc' = call.spc /\ frame' = call.frame
    /\ UNCHANGED <<sshVars, sevents, scmdq, scmdClosed, scmdSent, remote, localfs, sops,
                   conflict_policy, response, faults>>

\* The root of a directory upload.
UploadRootMeta == DirTarget("up_root_meta", frame.cmd.path, "up_root_decided", "up_root_walk")
UploadRootDecided ==
    UploadDecided("up_root_decided", frame.cmd.path, "cmd_ok", "up_root_ensure")
UploadRootEnsure == UploadEnsure("up_root_ensure", frame.cmd.path, "up_root_walk")

\* let mut stack = vec![local.clone()];
UploadRootWalk ==
    /\ spc = "up_root_walk"
    /\ frame' = [frame EXCEPT !.xfer.stack = <<frame.cmd.local>>, !.xfer.entries = <<>>]
    /\ spc' = "up_walk"
    /\ UNCHANGED <<sshVars, sevents, scmdq, scmdClosed, scmdSent, remote, localfs, sops,
                   conflict_policy, response, faults>>

\* while let Some(local_dir) = stack.pop() { for entry in read_dir { .. } }:
\* the next entry of the directory being read, or the next directory, or
\* TransferComplete for the whole upload.
UploadWalk ==
    /\ spc = "up_walk"
    /\ IF frame.xfer.entries # <<>>
       THEN LET local_entry == Head(frame.xfer.entries)
                remote_entry ==
                    join_remote_with_relative(frame.cmd.path,
                                              strip_prefix(local_entry, frame.cmd.local))
                fr == [frame EXCEPT !.xfer.entries = Tail(@),
                                    !.xfer.entry = local_entry,
                                    !.xfer.target = remote_entry]
                call == upload_file(fr, local_entry, remote_entry, "up_walk")
            IN /\ IF localfs[local_entry].is_dir
                  THEN spc' = "up_dir_meta" /\ frame' = fr
                  ELSE spc' = call.spc /\ frame' = call.frame
               /\ UNCHANGED <<sevents, faults>>
       ELSE IF frame.xfer.stack # <<>>
       THEN LET local_dir == Top(frame.xfer.stack) IN
            \E r \in Outcomes(CanReadDir(localfs, local_dir)) :
               /\ Charge(r)
               /\ IF r = "ok"
                  THEN \E entries \in Orders(Children(localfs, local_dir)) :
                          /\ frame' = [frame EXCEPT !.xfer.stack = Pop(@),
                                                    !.xfer.entries = entries]
                          /\ spc' = "up_walk"
                  ELSE Raise("Failed to read local directory", local_dir)
               /\ UNCHANGED sevents
       ELSE /\ SftpEmit(Complete(remote_basename(frame.cmd.path)))
            /\ spc' = "cmd_ok"
            /\ UNCHANGED <<frame, faults>>
    /\ UNCHANGED <<sshVars, scmdq, scmdClosed, scmdSent, remote, localfs, sops,
                   conflict_policy, response>>

\* A directory entry of the walk.
UploadDirMeta == DirTarget("up_dir_meta", frame.xfer.target, "up_dir_decided", "up_dir_push")
UploadDirDecided ==
    UploadDecided("up_dir_decided", frame.xfer.target, "up_walk", "up_dir_ensure")
UploadDirEnsure == UploadEnsure("up_dir_ensure", frame.xfer.target, "up_dir_push")

\* stack.push(local_entry)
UploadDirPush ==
    /\ spc = "up_dir_push"
    /\ frame' = [frame EXCEPT !.xfer.stack = Append(@, frame.xfer.entry)]
    /\ spc' = "up_walk"
    /\ UNCHANGED <<sshVars, sevents, scmdq, scmdClosed, scmdSent, remote, localfs, sops,
                   conflict_policy, response, faults>>

\* upload_file: if let Ok(existing) = sftp.metadata(remote_file)
UploadFileMeta ==
    /\ spc = "uf_meta"
    /\ LET key == Resolve(frame.xfer.remote_file) IN
       \E r \in Outcomes(CanStat(remote, key)) :
          /\ Charge(r)
          /\ IF r = "ok"
             THEN ask_transfer_conflict(frame, frame.xfer.remote_file, key, "Upload",
                                        remote[key].is_dir, "uf_decided")
             ELSE /\ spc' = "uf_read"
                  /\ UNCHANGED <<frame, sevents, sops, response>>
    /\ UNCHANGED <<sshVars, scmdq, scmdClosed, scmdSent, remote, localfs, conflict_policy>>

\* Mutant: KeepExisting uploads all the same.
UploadFileDecided_KeepIsIgnored ==
    /\ spc = "uf_decided"
    /\ LET call == remove_remote_entry_recursive(frame, frame.xfer.remote_file, "uf_read") IN
       IF frame.ask.decision = "KeepExisting"
       THEN spc' = "uf_read" /\ UNCHANGED frame
       ELSE spc' = call.spc /\ frame' = call.frame
    /\ UNCHANGED <<sshVars, sevents, scmdq, scmdClosed, scmdSent, remote, localfs, sops,
                   conflict_policy, response, faults>>

UploadFileDecided ==
    UploadDecided("uf_decided", frame.xfer.remote_file, frame.xfer.ret, "uf_read")

\* tokio::fs::read(local_file), then TransferProgress { bytes: 0, total }
UploadFileRead ==
    /\ spc = "uf_read"
    /\ LET local_file == frame.xfer.local_file
           name == file_name(local_file, remote_basename(frame.xfer.remote_file))
       IN \E r \in Outcomes(local_file \in DOMAIN localfs /\ ~localfs[local_file].is_dir) :
             /\ Charge(r)
             /\ IF r = "ok"
                THEN /\ SftpEmit(Progress(name, 0, localfs[local_file].len))
                     /\ frame' = [frame EXCEPT !.xfer.name = name,
                                               !.xfer.total = localfs[local_file].len,
                                               !.xfer.written = 0]
                     /\ spc' = "uf_open"
                ELSE /\ Raise("Failed to read local file", local_file)
                     /\ UNCHANGED sevents
    /\ UNCHANGED <<sshVars, scmdq, scmdClosed, scmdSent, remote, localfs, sops,
                   conflict_policy, response>>

\* sftp.open_with_flags(remote_file, CREATE | TRUNCATE | WRITE)
UploadFileOpen ==
    /\ spc = "uf_open"
    /\ LET key == Resolve(frame.xfer.remote_file) IN
       \E r \in Outcomes(CanWriteFile(remote, key)) :
          /\ Charge(r)
          /\ Logged("open_write", key, r)
          /\ IF r = "ok"
             THEN /\ remote' = Put(remote, key,
                                   FileEntry(localfs[frame.xfer.local_file].id, 0))
                  /\ spc' = IF frame.xfer.total = 0 THEN "uf_shutdown" ELSE "uf_write"
                  /\ UNCHANGED frame
             ELSE /\ Raise("Failed to open remote file", frame.xfer.remote_file)
                  /\ UNCHANGED remote
    /\ UNCHANGED <<sshVars, sevents, scmdq, scmdClosed, scmdSent, localfs, conflict_policy,
                   response>>

\* Mutant: every chunk counts as a whole chunk_size.
UploadFileWrite_WholeChunks ==
    /\ spc = "uf_write"
    /\ LET key == Resolve(frame.xfer.remote_file)
           written == frame.xfer.written + chunk_size
       IN \E r \in Outcomes(IsFileAt(remote, key)) :
             /\ Charge(r)
             /\ Logged("write", key, r)
             /\ IF r = "ok"
                THEN /\ remote' = [remote EXCEPT ![key].len = written]
                     /\ SftpEmit(Progress(frame.xfer.name, written, frame.xfer.total))
                     /\ frame' = [frame EXCEPT !.xfer.written = written]
                     /\ spc' = IF written >= frame.xfer.total THEN "uf_shutdown" ELSE "uf_write"
                ELSE /\ Raise("Upload failed", frame.xfer.name)
                     /\ UNCHANGED <<remote, sevents>>
    /\ UNCHANGED <<sshVars, scmdq, scmdClosed, scmdSent, localfs, conflict_policy, response>>

\* file.write_all(chunk), then TransferProgress { bytes: written, total }
UploadFileWrite ==
    /\ spc = "uf_write"
    /\ LET key == Resolve(frame.xfer.remote_file)
           written == frame.xfer.written +
                          Min(chunk_size, frame.xfer.total - frame.xfer.written)
       IN \E r \in Outcomes(IsFileAt(remote, key)) :
             /\ Charge(r)
             /\ Logged("write", key, r)
             /\ IF r = "ok"
                THEN /\ remote' = [remote EXCEPT ![key].len = written]
                     /\ SftpEmit(Progress(frame.xfer.name, written, frame.xfer.total))
                     /\ frame' = [frame EXCEPT !.xfer.written = written]
                     /\ spc' = IF written = frame.xfer.total THEN "uf_shutdown" ELSE "uf_write"
                ELSE /\ Raise("Upload failed", frame.xfer.name)
                     /\ UNCHANGED <<remote, sevents>>
    /\ UNCHANGED <<sshVars, scmdq, scmdClosed, scmdSent, localfs, conflict_policy, response>>

\* file.shutdown(), then TransferComplete
UploadFileShutdown ==
    /\ spc = "uf_shutdown"
    /\ \E r \in Outcomes(TRUE) :
          /\ Charge(r)
          /\ IF r = "ok"
             THEN /\ SftpEmit(Complete(frame.xfer.name))
                  /\ spc' = frame.xfer.ret
                  /\ UNCHANGED frame
             ELSE /\ Raise("Finalizing upload failed", frame.xfer.name)
                  /\ UNCHANGED sevents
    /\ UNCHANGED <<sshVars, scmdq, scmdClosed, scmdSent, remote, localfs, sops,
                   conflict_policy, response>>

(***************************************************************************)
(* Download: download_entry_recursive, download_file_to_local and          *)
(* remove_local_entry_recursive.                                           *)
(***************************************************************************)
\* if local.is_dir() { local.join(remote_basename(&remote)) } else { local }
local_target(local, rpath) ==
    IF IsDirAt(localfs, local) THEN Append(local, remote_basename(rpath)) ELSE local

\* tokio::fs::create_dir_all(key): granted when no prefix is a file.
CanCreateDirAll(fs, key) ==
    \A n \in 1..Len(key) : ~IsFileAt(fs, SubSeq(key, 1, n))
CreateDirAll(fs, key) ==
    [k \in DOMAIN fs \cup {SubSeq(key, 1, n) : n \in 1..Len(key)} |->
        IF k \in DOMAIN fs THEN fs[k] ELSE DirEntry]

\* tokio::fs::remove_dir_all / remove_file
RemoveAll(fs, key) == [k \in {j \in DOMAIN fs : ~IsUnder(j, key)} |-> fs[k]]

\* The call of download_file_to_local(remote_file, local_file) up to its
\* first await: an existing local_file is a conflict.
download_file_to_local(fr, remote_file, local_file, ret) ==
    LET callee == [fr EXCEPT !.xfer.local_file = local_file,
                             !.xfer.remote_file = remote_file,
                             !.xfer.name = remote_basename(remote_file),
                             !.xfer.total = 0,
                             !.xfer.written = 0,
                             !.xfer.ret = ret]
    IN IF local_file \in DOMAIN localfs
       THEN ask_transfer_conflict(callee, local_file, local_file, "Download",
                                  localfs[local_file].is_dir, "df_decided")
       ELSE /\ spc' = "df_meta"
            /\ frame' = callee
            /\ UNCHANGED <<sevents, sops, response>>

\* A local directory is about to be made at key: what is there and is no
\* directory is a conflict, decided at site; otherwise create_dir_all at
\* label mkdir.
LocalDirTarget(fr, key, site, mkdir) ==
    IF IsFileAt(localfs, key)
    THEN ask_transfer_conflict(fr, key, key, "Download", FALSE, site)
    ELSE /\ spc' = mkdir
         /\ frame' = fr
         /\ UNCHANGED <<sevents, sops, response>>

\* sftp.metadata(&remote): a directory is walked into local_root, a file
\* is downloaded to the local target.
DownloadStat ==
    /\ spc = "dn_stat"
    /\ LET rpath == frame.cmd.path
           key == Resolve(rpath)
           target == local_target(frame.cmd.local, rpath)
           fr == [frame EXCEPT !.xfer.entry = target]
       IN \E r \in Outcomes(CanStat(remote, key)) :
             /\ Charge(r)
             /\ IF r # "ok"
                THEN /\ Raise("Failed to stat remote path", rpath)
                     /\ UNCHANGED <<sevents, sops, response>>
                ELSE IF remote[key].is_dir
                THEN LocalDirTarget(fr, target, "dn_root_decided", "dn_root_mkdir")
                ELSE download_file_to_local(fr, rpath, target, "cmd_ok")
    /\ UNCHANGED <<sshVars, scmdq, scmdClosed, scmdSent, remote, localfs, conflict_policy>>

\* match decision: KeepExisting goes to keep, ReplaceWithIncoming to the
\* removal of the local entry.
DownloadDecided(at, keep, replace) ==
    /\ spc = at
    /\ spc' = IF frame.ask.decision = "KeepExisting" THEN keep ELSE replace
    /\ UNCHANGED <<sshVars, sevents, scmdq, scmdClosed, scmdSent, remote, localfs, sops,
                   conflict_policy, response, frame, faults>>

\* remove_local_entry_recursive(key): nothing when it does not exist.
LocalRemove(at, key, ret) ==
    /\ spc = at
    /\ IF key \notin DOMAIN localfs
       THEN /\ spc' = ret
            /\ UNCHANGED <<localfs, sops, frame, faults>>
       ELSE \E r \in Outcomes(Len(key) > 1) :
               /\ Charge(r)
               /\ Logged(IF localfs[key].is_dir THEN "local_remove_dir_all"
                         ELSE "local_remove_file", key, r)
               /\ IF r = "ok"
                  THEN /\ localfs' = RemoveAll(localfs, key)
                       /\ spc' = ret
                       /\ UNCHANGED frame
                  ELSE /\ Raise(IF localfs[key].is_dir
                             THEN "Failed to remove local directory"
                             ELSE "Failed to remove local file", key)
                       /\ UNCHANGED localfs
    /\ UNCHANGED <<sshVars, sevents, scmdq, scmdClosed, scmdSent, remote, conflict_policy,
                   response>>

\* tokio::fs::create_dir_all(key); then what follows in fr, at label ret.
LocalMkDir(at, key, fr, ret) ==
    /\ spc = at
    /\ \E r \in Outcomes(CanCreateDirAll(localfs, key)) :
          /\ Charge(r)
          /\ Logged("local_create_dir_all", key, r)
          /\ IF r = "ok"
             THEN /\ localfs' = CreateDirAll(localfs, key)
                  /\ spc' = ret
                  /\ frame' = fr
             ELSE /\ Raise("Failed to create local directory", key)
                  /\ UNCHANGED localfs
    /\ UNCHANGED <<sshVars, sevents, scmdq, scmdClosed, scmdSent, remote, conflict_policy,
                   response>>

\* The root of a directory download.
DownloadRootDecided == DownloadDecided("dn_root_decided", "cmd_ok", "dn_root_remove")
DownloadRootRemove == LocalRemove("dn_root_remove", frame.xfer.entry, "dn_root_mkdir")

\* create_dir_all(&local_root); let mut stack = vec![(remote, local_root)];
DownloadRootMkDir ==
    LocalMkDir("dn_root_mkdir", frame.xfer.entry,
               [frame EXCEPT !.xfer.stack = <<[remote |-> frame.cmd.path,
                                               local |-> frame.xfer.entry]>>,
                             !.xfer.entries = <<>>],
               "dn_walk")

\* while let Some((remote_dir, local_dir)) = stack.pop(): sftp.read_dir,
\* then every entry in turn; TransferComplete for the whole download.
DownloadWalk ==
    /\ spc = "dn_walk"
    /\ IF frame.xfer.entries # <<>>
       THEN LET e == Head(frame.xfer.entries)
                fr == [frame EXCEPT !.xfer.entries = Tail(@),
                                    !.xfer.entry = e.local,
                                    !.xfer.target = e.remote]
            IN /\ IF e.is_dir
                  THEN LocalDirTarget(fr, e.local, "dn_dir_decided", "dn_dir_mkdir")
                  ELSE download_file_to_local(fr, e.remote, e.local, "dn_walk")
               /\ UNCHANGED faults
       ELSE IF frame.xfer.stack # <<>>
       THEN LET dir == Top(frame.xfer.stack)
                key == Resolve(dir.remote)
            IN \E r \in Outcomes(CanReadDir(remote, key)) :
                  /\ Charge(r)
                  /\ IF r = "ok"
                     THEN \E entries \in Orders(Children(remote, key)) :
                             /\ frame' =
                                  [frame EXCEPT
                                     !.xfer.stack = Pop(@),
                                     !.xfer.entries =
                                        [i \in DOMAIN entries |->
                                           [remote |-> join_remote_path(dir.remote,
                                                                        Name(entries[i])),
                                            local |-> Append(dir.local, Name(entries[i])),
                                            is_dir |-> remote[entries[i]].is_dir]]]
                             /\ spc' = "dn_walk"
                     ELSE Raise("Failed to list", dir.remote)
                  /\ UNCHANGED <<sevents, sops, response>>
       ELSE /\ SftpEmit(Complete(remote_basename(frame.cmd.path)))
            /\ spc' = "cmd_ok"
            /\ UNCHANGED <<frame, faults, sops, response>>
    /\ UNCHANGED <<sshVars, scmdq, scmdClosed, scmdSent, remote, localfs, conflict_policy>>

\* A directory entry of the walk.
DownloadDirDecided == DownloadDecided("dn_dir_decided", "dn_walk", "dn_dir_remove")
DownloadDirRemove == LocalRemove("dn_dir_remove", frame.xfer.entry, "dn_dir_mkdir")

\* create_dir_all(&local_child); stack.push((remote_child, local_child));
DownloadDirMkDir ==
    LocalMkDir("dn_dir_mkdir", frame.xfer.entry,
               [frame EXCEPT !.xfer.stack = Append(@, [remote |-> frame.xfer.target,
                                                       local |-> frame.xfer.entry])],
               "dn_walk")

\* Mutant: KeepExisting downloads all the same.
DownloadFileDecided_KeepIsIgnored == DownloadDecided("df_decided", "df_meta", "df_remove")

\* download_file_to_local: match decision
DownloadFileDecided == DownloadDecided("df_decided", frame.xfer.ret, "df_remove")
DownloadFileRemove == LocalRemove("df_remove", frame.xfer.local_file, "df_meta")

\* sftp.metadata(remote_file) for the size, 0 when it fails; then
\* TransferProgress { bytes: 0, total }
DownloadFileMeta ==
    /\ spc = "df_meta"
    /\ LET key == Resolve(frame.xfer.remote_file) IN
       \E r \in Outcomes(CanStat(remote, key)) :
          /\ Charge(r)
          /\ LET total == IF r = "ok" THEN remote[key].len ELSE 0 IN
             /\ SftpEmit(Progress(frame.xfer.name, 0, total))
             /\ frame' = [frame EXCEPT !.xfer.total = total]
    /\ spc' = "df_open"
    /\ UNCHANGED <<sshVars, scmdq, scmdClosed, scmdSent, remote, localfs, sops,
                   conflict_policy, response>>

\* sftp.open(remote_file)
DownloadFileOpen ==
    /\ spc = "df_open"
    /\ \E r \in Outcomes(IsFileAt(remote, Resolve(frame.xfer.remote_file))) :
          /\ Charge(r)
          /\ IF r = "ok"
             THEN spc' = "df_read" /\ UNCHANGED frame
             ELSE Raise("Failed to open remote file", frame.xfer.remote_file)
    /\ UNCHANGED <<sshVars, sevents, scmdq, scmdClosed, scmdSent, remote, localfs, sops,
                   conflict_policy, response>>

\* remote_handle.read_to_end(&mut data)
DownloadFileRead ==
    /\ spc = "df_read"
    /\ LET key == Resolve(frame.xfer.remote_file) IN
       \E r \in Outcomes(IsFileAt(remote, key)) :
          /\ Charge(r)
          /\ IF r = "ok"
             THEN /\ frame' = [frame EXCEPT !.xfer.data = remote[key]]
                  /\ spc' = "df_mkparent"
             ELSE Raise("Failed to read remote file", frame.xfer.remote_file)
    /\ UNCHANGED <<sshVars, sevents, scmdq, scmdClosed, scmdSent, remote, localfs, sops,
                   conflict_policy, response>>

\* tokio::fs::create_dir_all(parent)
DownloadFileMkParent ==
    LocalMkDir("df_mkparent", Parent(frame.xfer.local_file), frame, "df_write")

\* Mutant: only the first chunk of the data is written.
DownloadFileWrite_OneChunk ==
    /\ spc = "df_write"
    /\ LET key == frame.xfer.local_file IN
       \E r \in Outcomes(CanWriteFile(localfs, key)) :
          /\ Charge(r)
          /\ Logged("local_write", key, r)
          /\ IF r = "ok"
             THEN /\ localfs' = Put(localfs, key,
                                    [frame.xfer.data EXCEPT !.len = Min(chunk_size, @)])
                  /\ sevents' = sevents \o
                        <<Progress(frame.xfer.name, frame.xfer.data.len, frame.xfer.total),
                          Complete(frame.xfer.name)>>
                  /\ spc' = frame.xfer.ret
                  /\ UNCHANGED frame
             ELSE /\ Raise("Failed to write", key)
                  /\ UNCHANGED <<localfs, sevents>>
    /\ UNCHANGED <<sshVars, scmdq, scmdClosed, scmdSent, remote, conflict_policy, response>>

\* tokio::fs::write(local_file, &data), then TransferProgress and
\* TransferComplete
DownloadFileWrite ==
    /\ spc = "df_write"
    /\ LET key == frame.xfer.local_file IN
       \E r \in Outcomes(CanWriteFile(localfs, key)) :
          /\ Charge(r)
          /\ Logged("local_write", key, r)
          /\ IF r = "ok"
             THEN /\ localfs' = Put(localfs, key, frame.xfer.data)
                  /\ sevents' = sevents \o
                        <<Progress(frame.xfer.name, frame.xfer.data.len, frame.xfer.total),
                          Complete(frame.xfer.name)>>
                  /\ spc' = frame.xfer.ret
                  /\ UNCHANGED frame
             ELSE /\ Raise("Failed to write", key)
                  /\ UNCHANGED <<localfs, sevents>>
    /\ UNCHANGED <<sshVars, scmdq, scmdClosed, scmdSent, remote, conflict_policy, response>>

(***************************************************************************)
(* The command loop.                                                       *)
(***************************************************************************)
\* while let Ok(cmd) = cmd_rx.recv().await { match cmd { ... } }: the
\* command is taken off the queue and its arm runs up to its first await.
\* The records of events and requests start anew.
SftpRecv ==
    /\ spc = "s_loop"
    /\ scmdq # <<>>
    /\ scmdq' = Tail(scmdq)
    /\ LET cmd == Head(scmdq)
           fr == [NoFrame EXCEPT !.cmd = cmd, !.at = Snapshot]
       IN CASE cmd.type = "ListDir" ->
                 /\ spc' = "ls_readdir"
                 /\ frame' = fr
                 /\ sevents' = <<>>
                 /\ UNCHANGED conflict_policy
            [] cmd.type = "Upload" ->
                 /\ spc' = "up_stat"
                 /\ frame' = fr
                 /\ conflict_policy' = "None"
                 /\ sevents' = <<>>
            [] cmd.type = "Download" ->
                 /\ spc' = "dn_stat"
                 /\ frame' = fr
                 /\ conflict_policy' = "None"
                 /\ sevents' = <<>>
            [] cmd.type = "MkDir" ->
                 LET call == ensure_remote_dir(fr, cmd.path, "cmd_ok") IN
                 /\ spc' = call.spc
                 /\ frame' = call.frame
                 /\ sevents' = <<>>
                 /\ UNCHANGED conflict_policy
            [] cmd.type = "Remove" ->
                 LET call == remove_remote_entry_recursive(fr, cmd.path, "cmd_ok") IN
                 /\ spc' = call.spc
                 /\ frame' = call.frame
                 /\ sevents' = <<>>
                 /\ UNCHANGED conflict_policy
            [] cmd.type = "Rename" ->
                 /\ spc' = "mv_rename"
                 /\ frame' = fr
                 /\ sevents' = <<>>
                 /\ UNCHANGED conflict_policy
            [] cmd.type = "Disconnect" ->
                 /\ sevents' = <<SftpEvent("Disconnected", "none", NoPath)>>
                 /\ spc' = "s_done"
                 /\ frame' = fr
                 /\ UNCHANGED conflict_policy
    /\ sops' = <<>>
    /\ UNCHANGED <<sshVars, scmdClosed, scmdSent, remote, localfs, response, faults>>

\* recv() returns Err: the queue is empty and every sender is gone; the
\* loop ends and Disconnected is sent.
SftpCommandChannelClosed ==
    /\ spc = "s_loop"
    /\ scmdq = <<>>
    /\ scmdClosed
    /\ SftpEmit(SftpEvent("Disconnected", "none", NoPath))
    /\ spc' = "s_done"
    /\ UNCHANGED <<sshVars, scmdq, scmdClosed, scmdSent, remote, localfs, sops,
                   conflict_policy, response, frame, faults>>

\* The arm of the command has ended without an error: its locals are
\* dropped, back to recv().
\* Mutant: after a command that succeeded the engine receives no more.
CommandOk_Halts ==
    /\ spc = "cmd_ok"
    /\ spc' = "s_halt"
    /\ frame' = NoFrame
    /\ conflict_policy' = "None"
    /\ UNCHANGED <<sshVars, sevents, scmdq, scmdClosed, scmdSent, remote, localfs,
                   sops, response, faults>>

CommandOk ==
    /\ spc = "cmd_ok"
    /\ spc' = "s_loop"
    /\ frame' = NoFrame
    /\ conflict_policy' = "None"
    /\ UNCHANGED <<sshVars, sevents, scmdq, scmdClosed, scmdSent, remote, localfs,
                   sops, response, faults>>

\* Mutant: an error of a command ends the engine.
CommandFailed_EndsEngine ==
    /\ spc = "cmd_err"
    /\ SftpEmit(SftpEvent("Error", frame.err.tag, frame.err.path))
    /\ spc' = "s_report_disc"
    /\ frame' = NoFrame
    /\ conflict_policy' = "None"
    /\ UNCHANGED <<sshVars, scmdq, scmdClosed, scmdSent, remote, localfs, sops,
                   response, faults>>

\* if let Err(msg) = ... { event_tx.send(SftpEvent::Error(msg)).await }
\* Mutant: a failed command puts both file systems back as it found them.
CommandFailed_RollsBack ==
    /\ spc = "cmd_err"
    /\ SftpEmit(SftpEvent("Error", frame.err.tag, frame.err.path))
    /\ spc' = "s_loop"
    /\ frame' = NoFrame
    /\ conflict_policy' = "None"
    /\ remote' = frame.at.remote
    /\ localfs' = frame.at.localfs
    /\ UNCHANGED <<sshVars, scmdq, scmdClosed, scmdSent, sops, response, faults>>

CommandFailed ==
    /\ spc = "cmd_err"
    /\ SftpEmit(SftpEvent("Error", frame.err.tag, frame.err.path))
    /\ spc' = "s_loop"
    /\ frame' = NoFrame
    /\ conflict_policy' = "None"
    /\ UNCHANGED <<sshVars, scmdq, scmdClosed, scmdSent, remote, localfs, sops,
                   response, faults>>

\* What a listing shows of an entry.
Listed(fs, key) == [name |-> Name(key), is_dir |-> fs[key].is_dir]

\* The characters of names, in the order of their code points.
CharOrder ==
    <<".", "/", "A", "B", "a", "b", "c", "d", "e", "f", "g", "h", "i", "j", "k", "l", "m",
      "n", "o", "p", "q", "r", "s", "t", "u", "v", "w", "x", "y", "z">>
CharCode(c) == CHOOSE i \in DOMAIN CharOrder : CharOrder[i] = c

\* str::to_lowercase
LowerChar(c) == CASE c = "A" -> "a" [] c = "B" -> "b" [] OTHER -> c
to_lowercase(s) == [i \in DOMAIN s |-> LowerChar(s[i])]

\* Ord::cmp of two strings: by the first character that differs, a proper
\* prefix is Less.
RECURSIVE str_cmp(_, _)
str_cmp(s, t) ==
    IF s = <<>> /\ t = <<>> THEN "Equal"
    ELSE IF s = <<>> THEN "Less"
    ELSE IF t = <<>> THEN "Greater"
    ELSE IF CharCode(Head(s)) < CharCode(Head(t)) THEN "Less"
    ELSE IF CharCode(Head(s)) > CharCode(Head(t)) THEN "Greater"
    ELSE str_cmp(Tail(s), Tail(t))

\* Ord::cmp of two bools: false is Less than true.
bool_cmp(x, y) == IF x = y THEN "Equal" ELSE IF y THEN "Less" ELSE "Greater"

\* Mutant: the names are compared as they are.
entry_cmp_CaseSensitive(a, b) ==
    IF bool_cmp(b.is_dir, a.is_dir) # "Equal"
    THEN bool_cmp(b.is_dir, a.is_dir)
    ELSE str_cmp(a.name, b.name)

\* |a, b| b.is_dir.cmp(&a.is_dir).then(a.name.to_lowercase().cmp(&b.name.to_lowercase()))
entry_cmp(a, b) ==
    IF bool_cmp(b.is_dir, a.is_dir) # "Equal"
    THEN bool_cmp(b.is_dir, a.is_dir)
    ELSE str_cmp(to_lowercase(a.name), to_lowercase(b.name))

\* Vec::sort_by is stable: an entry goes behind the entries it is Equal to.
RECURSIVE SortInsert(_, _)
SortInsert(sorted, e) ==
    IF sorted = <<>> THEN <<e>>
    ELSE IF entry_cmp(Head(sorted), e) = "Greater" THEN <<e>> \o sorted
    ELSE <<Head(sorted)>> \o SortInsert(Tail(sorted), e)

RECURSIVE sort_by(_)
sort_by(v) ==
    IF v = <<>> THEN <<>>
    ELSE SortInsert(sort_by(SubSeq(v, 1, Len(v) - 1)), v[Len(v)])

DotDot == <<Dot, Dot>>
NotDots(e) == e.name # <<Dot>> /\ e.name # DotDot

\* The listing made of what read_dir returned: "." and ".." skipped, sorted.
listing(entries) == sort_by(SelectSeq(entries, NotDots))

\* What read_dir returns for a directory: "." and "..", then its entries in
\* the order of the server.
ReadDirAnswers(fs, key) ==
    {<<[name |-> <<Dot>>, is_dir |-> TRUE], [name |-> DotDot, is_dir |-> TRUE]>>
         \o [i \in DOMAIN order |-> Listed(fs, order[i])] :
     order \in Orders(Children(fs, key))}

\* ListDir: sftp.read_dir(&path), then DirListing or Error
ListDir ==
    /\ spc = "ls_readdir"
    /\ LET key == Resolve(frame.cmd.path) IN
       \E r \in Outcomes(CanReadDir(remote, key)) :
          /\ Charge(r)
          /\ IF r = "ok"
             THEN /\ \E entries \in ReadDirAnswers(remote, key) :
                        SftpEmit([SftpEvent("DirListing", "none", frame.cmd.path) EXCEPT
                                    !.entries = listing(entries)])
                  /\ spc' = "cmd_ok"
                  /\ UNCHANGED frame
             ELSE /\ Raise("Failed to list", frame.cmd.path)
                  /\ UNCHANGED sevents
    /\ UNCHANGED <<sshVars, scmdq, scmdClosed, scmdSent, remote, localfs, sops,
                   conflict_policy, response>>

\* Rename: sftp.rename(&from, &to), Error when it fails
RenameEntry ==
    /\ spc = "mv_rename"
    /\ LET from == Resolve(frame.cmd.path)
           to == Resolve(frame.cmd.to)
       IN \E r \in Outcomes(CanRename(remote, from, to)) :
             /\ Charge(r)
             /\ Logged("rename", from, r)
             /\ IF r = "ok"
                THEN /\ remote' = Rename(remote, from, to)
                     /\ spc' = "cmd_ok"
                     /\ UNCHANGED frame
                ELSE /\ Raise("Failed to rename", frame.cmd.path)
                     /\ UNCHANGED remote
    /\ UNCHANGED <<sshVars, sevents, scmdq, scmdClosed, scmdSent, localfs, conflict_policy,
                   response>>

(***************************************************************************)
(* The UI end of the engine's command queue.                               *)
(***************************************************************************)
\* The receiver lives in run_sftp_session.
SftpReceiverAlive == spc \notin {"s_report_error", "s_report_disc", "s_done"}

\* cmd_tx.send(cmd).await of a command of the set cmds
UiSftpSendOf(cmds) ==
    /\ SftpReceiverAlive
    /\ ~scmdClosed
    /\ Len(scmdq) < SftpCmdQueueCap
    /\ scmdSent < MaxSftpCmds
    /\ \E cmd \in cmds : scmdq' = Append(scmdq, cmd)
    /\ scmdSent' = scmdSent + 1
    /\ UNCHANGED <<sshVars, spc, sevents, scmdClosed, remote, localfs, sops,
                   conflict_policy, response, frame, faults>>

\* Every clone of the command sender is dropped.
UiSftpDropSenders ==
    /\ ~scmdClosed
    /\ scmdClosed' = TRUE
    /\ UNCHANGED <<sshVars, spc, sevents, scmdq, scmdSent, remote, localfs, sops,
                   conflict_policy, response, frame, faults>>

(***************************************************************************)
(* Component specifications of the SFTP engine.  The session task is never *)
(* scheduled in them; the server's tree is any tree over a few paths.      *)
(***************************************************************************)
SftpLoopStep ==
    \/ SftpEstablish
    \/ SftpOpenChannel
    \/ SftpRequestSubsystem
    \/ SftpInit
    \/ SftpReportError
    \/ SftpReportDisconnected
    \/ SftpRecv
    \/ SftpCommandChannelClosed
    \/ CommandOk
    \/ CommandFailed

EnsureStep == EnsureMeta \/ EnsureRemoveFile \/ EnsureCreate

RemoveStep ==
    \/ RemoveMeta
    \/ RemoveReadDir
    \/ RemoveDir
    \/ RemoveFile
    \/ RemoveAnyFile
    \/ RemoveAnyDir

\* Remote paths: "/a/b/c", "/a/b/", "a/b", "/a//b", "/./a", "/", "", ".".
PathABC == <<"/", "a", "/", "b", "/", "c">>
PathABSlash == <<"/", "a", "/", "b", "/">>
PathRelAB == <<"a", "/", "b">>
PathADoubleB == <<"/", "a", "/", "/", "b">>
PathDotA == <<"/", ".", "/", "a">>
PathRoot == <<"/">>
PathEmpty == <<>>
PathDot == <<".">>

MkDirPaths ==
    {PathABC, PathABSlash, PathRelAB, PathADoubleB, PathDotA, PathRoot, PathEmpty, PathDot}

\* The resolved paths of "/a", "/a/b", "/a/b/c", "a", "a/b".
KeyA == <<Root, <<"a">>>>
KeyAB == <<Root, <<"a">>, <<"b">>>>
KeyABC == <<Root, <<"a">>, <<"b">>, <<"c">>>>
KeyRelA == <<Cwd, <<"a">>>>
KeyRelAB == <<Cwd, <<"a">>, <<"b">>>>
MkDirKeys == {KeyA, KeyAB, KeyABC, KeyRelA, KeyRelAB}

\* MkDir on any tree over those paths.
MkDirCommands == {SftpCommand("MkDir", p, NoKey, NoPath) : p \in MkDirPaths}
UiSendMkDir == UiSftpSendOf(MkDirCommands)

InitMkDir ==
    /\ OneProfile
    /\ SftpSpawned
    /\ remote \in Trees(MkDirKeys)
    /\ localfs = NoFiles

NextMkDir ==
    \/ SftpLoopStep
    \/ EnsureStep
    \/ UiSendMkDir
    \/ UiSftpDropSenders

SpecMkDir == InitMkDir /\ [][NextMkDir]_vars

\* Remote paths "/a", "/a/b/", and the resolved paths of "/a/f", "/a/b/g",
\* "/a/b/d".
PathA == <<"/", "a">>
RemovePaths == {PathA, PathABSlash}

KeyAF == <<Root, <<"a">>, <<"f">>>>
KeyABG == <<Root, <<"a">>, <<"b">>, <<"g">>>>
KeyABD == <<Root, <<"a">>, <<"b">>, <<"d">>>>
RemoveKeys == {KeyA, KeyAF, KeyAB, KeyABG, KeyABD}

\* Remove on any tree over those paths.
RemoveCommands == {SftpCommand("Remove", p, NoKey, NoPath) : p \in RemovePaths}
UiSendRemove == UiSftpSendOf(RemoveCommands)

InitRemove ==
    /\ OneProfile
    /\ SftpSpawned
    /\ remote \in Trees(RemoveKeys)
    /\ localfs = NoFiles

NextRemove ==
    \/ SftpLoopStep
    \/ RemoveStep
    \/ UiSendRemove
    \/ UiSftpDropSenders

SpecRemove == InitRemove /\ [][NextRemove]_vars

UploadStep ==
    \/ UploadStat
    \/ UploadRootMeta
    \/ UploadRootDecided
    \/ UploadRootEnsure
    \/ UploadRootWalk
    \/ UploadWalk
    \/ UploadDirMeta
    \/ UploadDirDecided
    \/ UploadDirEnsure
    \/ UploadDirPush
    \/ UploadFileMeta
    \/ UploadFileDecided
    \/ UploadFileRead
    \/ UploadFileOpen
    \/ UploadFileWrite
    \/ UploadFileShutdown

DownloadStep ==
    \/ DownloadStat
    \/ DownloadRootDecided
    \/ DownloadRootRemove
    \/ DownloadRootMkDir
    \/ DownloadWalk
    \/ DownloadDirDecided
    \/ DownloadDirRemove
    \/ DownloadDirMkDir
    \/ DownloadFileDecided
    \/ DownloadFileRemove
    \/ DownloadFileMeta
    \/ DownloadFileOpen
    \/ DownloadFileRead
    \/ DownloadFileMkParent
    \/ DownloadFileWrite

ConflictStep == AskRecv \/ UiRespond \/ UiDropResponse

\* Transfers between a local and a remote tree that conflict in every way:
\* locally /d holds the file f and the empty directory s, /e is a file and
\* /u an empty directory.  On the server /r/d holds the directory f with
\* the file h, and the file s; /r/e is an empty directory and /r/u a file.
KeyR == <<Root, <<"r">>>>
LocalD == <<Root, <<"d">>>>
LocalE == <<Root, <<"e">>>>
LocalU == <<Root, <<"u">>>>
LocalScenario ==
    (LocalD :> DirEntry) @@
    (Append(LocalD, <<"f">>) :> FileEntry("new", 1)) @@
    (Append(LocalD, <<"s">>) :> DirEntry) @@
    (LocalE :> FileEntry("new", 1)) @@
    (LocalU :> DirEntry) @@
    NoFiles

RemoteD == Append(KeyR, <<"d">>)
RemoteScenario ==
    (KeyR :> DirEntry) @@
    (RemoteD :> DirEntry) @@
    (Append(RemoteD, <<"f">>) :> DirEntry) @@
    (Append(Append(RemoteD, <<"f">>), <<"h">>) :> FileEntry("old", 1)) @@
    (Append(RemoteD, <<"s">>) :> FileEntry("old", 1)) @@
    (Append(KeyR, <<"e">>) :> DirEntry) @@
    (Append(KeyR, <<"u">>) :> FileEntry("old", 1)) @@
    NoFiles

\* Remote paths "/r/d", "/r/e", "/r/u".
PathRD == <<"/", "r", "/", "d">>
PathRE == <<"/", "r", "/", "e">>
PathRU == <<"/", "r", "/", "u">>

TransferCommands ==
    {SftpCommand("Upload", PathRD, LocalD, NoPath),
     SftpCommand("Upload", PathRU, LocalU, NoPath),
     SftpCommand("Download", PathRD, <<Root>>, NoPath),
     SftpCommand("Download", PathRE, <<Root>>, NoPath)}
UiSendTransfer == UiSftpSendOf(TransferCommands)

InitTransfer ==
    /\ OneProfile
    /\ SftpSpawned
    /\ remote = RemoteScenario
    /\ localfs = LocalScenario

NextTransfer ==
    \/ SftpLoopStep
    \/ EnsureStep
    \/ RemoveStep
    \/ UploadStep
    \/ DownloadStep
    \/ ConflictStep
    \/ UiSendTransfer
    \/ UiSftpDropSenders

SpecTransfer == InitTransfer /\ [][NextTransfer]_vars

\* Every command of the engine, on the trees of the transfers: ListDir
\* "/r/d", MkDir "/r/d/s", Remove "/r/u", Rename "/r/u" to "/r/d",
\* Disconnect, and the four transfers.
PathRDS == <<"/", "r", "/", "d", "/", "s">>
LoopCommands ==
    TransferCommands \cup
    {SftpCommand("ListDir", PathRD, NoKey, NoPath),
     SftpCommand("MkDir", PathRDS, NoKey, NoPath),
     SftpCommand("Remove", PathRU, NoKey, NoPath),
     SftpCommand("Rename", PathRU, NoKey, PathRD),
     SftpCommand("Disconnect", NoPath, NoKey, NoPath)}
UiSendAny == UiSftpSendOf(LoopCommands)

NextLoop ==
    \/ SftpLoopStep
    \/ ListDir
    \/ RenameEntry
    \/ EnsureStep
    \/ RemoveStep
    \/ UploadStep
    \/ DownloadStep
    \/ ConflictStep
    \/ UiSendAny
    \/ UiSftpDropSenders

SpecLoop == InitTransfer /\ [][NextLoop]_vars

(***************************************************************************)
(* Vocabulary of the properties.                                           *)
(***************************************************************************)
Last(seq) == seq[Len(seq)]

EventsOf(type) == {i \in DOMAIN events : events[i].type = type}
CallsOf(call) == {i \in DOMAIN wire : wire[i].call = call}
Called(call, ret) == \E i \in DOMAIN wire : wire[i] = Call(call, ret)

ErrorEvent(m) == SshEvent("Error", NoId, m)
DisconnectedEvent(reason) == SshEvent("Disconnected", NoId, reason)

\* The last two events of the session task are Error(m), Disconnected(Some(m)).
EndsWithErrorReport(m) ==
    /\ Len(events) >= 2
    /\ events[Len(events) - 1] = ErrorEvent(m)
    /\ events[Len(events)] = DisconnectedEvent(Some(m))

SetupPcs == {"connect", "kex", "auth", "auth_pk", "auth_pw"}
AuthCallNames == {"authenticate_publickey", "authenticate_password"}
AuthCalls == {i \in DOMAIN wire : wire[i].call \in AuthCallNames}

(***************************************************************************)
(* C1.  Whenever run_session fails (in connect, authentication, channel    *)
(* setup or the main loop) the task sends Error(m), next                   *)
(* Disconnected(Some(m)) with the same m, the message of the error, and    *)
(* then has ended: these stay its last two events, and it sends exactly    *)
(* one of each.                                                            *)
(***************************************************************************)
C1_FailureIsReportedThenTaskEnds ==
    exitPath = "error" =>
        LET m == to_string(result) IN
        /\ result # NoError
        /\ m # None
        /\ pc \in {"report_error", "report_disc", "done"}
        /\ pc = "report_error" => EventsOf("Error") = {} /\ EventsOf("Disconnected") = {}
        /\ pc = "report_disc" =>
              /\ events # <<>> /\ Last(events) = ErrorEvent(m)
              /\ EventsOf("Disconnected") = {}
        /\ pc = "done" => EndsWithErrorReport(m)
        /\ Cardinality(EventsOf("Error")) <= 1
        /\ Cardinality(EventsOf("Disconnected")) <= 1

\* A failure inside the main loop (a SendData write failed) has been reported
\* and the task has ended.
C1_Witness ==
    /\ exitPath = "error"
    /\ pc = "done"
    /\ Called("data", "error")
    /\ EndsWithErrorReport(<<"Connection error: ", "russh error">>)

(***************************************************************************)
(* C2.  For every auth method: when the server rejected the last           *)
(* authentication call, or a credential the method requires is missing,    *)
(* the session sends no Connected, opens no session channel, starts no     *)
(* tunnel, and fails with an Auth error that it reports as Error followed  *)
(* by Disconnected(Some(reason)).                                          *)
(***************************************************************************)
LastAuthRejected ==
    /\ AuthCalls # {}
    /\ \E i \in AuthCalls :
          /\ \A j \in AuthCalls : j <= i
          /\ wire[i].ret = "rejected"

MissingCredential ==
    \/ profile.auth_method = "Password" /\ password = "None"
    \/ profile.auth_method \in {"PublicKey", "Both"} /\ profile.key_pair_id = "None"
    \/ /\ profile.auth_method = "Both"
       /\ Called("authenticate_publickey", "rejected")
       /\ password = "None"

Unauthenticated ==
    /\ Called("connect", "ok")
    /\ pc \notin SetupPcs
    /\ LastAuthRejected \/ MissingCredential

C2_UnauthenticatedNeverConnects ==
    Unauthenticated =>
        /\ EventsOf("Connected") = {}
        /\ CallsOf("channel_open_session") = {}
        /\ listeners = <<>>
        /\ exitPath = "error"
        /\ result.kind = "Auth"
        /\ pc = "done" =>
              events = <<HostKeyVerify(serverKey),
                         ErrorEvent(to_string(result)),
                         DisconnectedEvent(Some(to_string(result)))>>

\* Password auth, the server rejected the password, the task has ended.
C2_Witness ==
    /\ profile.auth_method = "Password"
    /\ Called("authenticate_password", "rejected")
    /\ pc = "done"
    /\ Last(events) = DisconnectedEvent(<<"Authentication failed: ", "Authentication failed">>)

(***************************************************************************)
(* C3.  auth_method Both: once the server has accepted the public key, no  *)
(* authenticate_password call is made, the password option is never read   *)
(* (so a missing password fails nothing) and the session goes on to send   *)
(* Connected.                                                              *)
(***************************************************************************)
C3_BothAcceptedKeyNeedsNoPassword ==
    (profile.auth_method = "Both" /\ Called("authenticate_publickey", "accepted")) =>
        /\ CallsOf("authenticate_password") = {}
        /\ ~pwConsulted
        /\ pc = "emit_connected" \/ EventsOf("Connected") # {}
        /\ exitPath = "error" => result.kind # "Auth"

\* Both without a password: the key was accepted and Connected was sent.
C3_Witness ==
    /\ profile.auth_method = "Both"
    /\ password = "None"
    /\ Called("authenticate_publickey", "accepted")
    /\ EventsOf("Connected") # {}

(***************************************************************************)
(* C4.  auth_method Both.  As claimed: the public-key attempt comes first, *)
(* the password attempt happens if and only if the server cleanly rejected *)
(* the public-key attempt, and an error of the public-key attempt or of    *)
(* key loading fails the session with an Auth error and no password        *)
(* attempt.                                                                *)
(***************************************************************************)
PublicKeyFirst ==
    \A i \in CallsOf("authenticate_password") :
        \E j \in CallsOf("authenticate_publickey") : j < i

KeyErrorIsFinal ==
    (Called("authenticate_publickey", "error") \/ Called("load_secret_key", "error")) =>
        /\ exitPath = "error"
        /\ result.kind = "Auth"
        /\ CallsOf("authenticate_password") = {}

C4_PasswordIffKeyRejected ==
    profile.auth_method = "Both" =>
        /\ PublicKeyFirst
        /\ pc \notin SetupPcs =>
              (CallsOf("authenticate_password") # {}
                  <=> Called("authenticate_publickey", "rejected"))
        /\ KeyErrorIsFinal

(***************************************************************************)
(* C4, amended.  The password attempt happens if and only if the server    *)
(* cleanly rejected the public-key attempt and a password was supplied;    *)
(* after a clean rejection without a password the session fails with an    *)
(* Auth error and makes no password attempt.  The rest is as claimed.      *)
(***************************************************************************)
C4_PasswordIffKeyRejectedAndPasswordGiven ==
    profile.auth_method = "Both" =>
        /\ PublicKeyFirst
        /\ pc \notin SetupPcs =>
              /\ CallsOf("authenticate_password") # {}
                    <=> (Called("authenticate_publickey", "rejected") /\ password = "Some")
              /\ (Called("authenticate_publickey", "rejected") /\ password = "None") =>
                    /\ exitPath = "error"
                    /\ result = AppError("Auth", "Password required for fallback")
        /\ KeyErrorIsFinal

\* Both: the key was rejected and the password attempt followed it.
C4_Witness ==
    /\ profile.auth_method = "Both"
    /\ wire # <<>>
    /\ Len(wire) >= 2
    /\ wire[Len(wire) - 1] = Call("authenticate_publickey", "rejected")
    /\ Last(wire).call = "authenticate_password"

(***************************************************************************)
(* C5.  As claimed: on a Disconnect command or a closed command channel    *)
(* the session sends channel EOF, then the transport disconnect "User      *)
(* disconnected", then Disconnected(None), and returns cleanly without an  *)
(* Error event.  Stated of the ended task: once EOF has been sent and the  *)
(* task has ended, it ended cleanly.                                       *)
(***************************************************************************)
DisconnectCall == "disconnect: User disconnected"

EndedCleanly ==
    /\ result = NoError
    /\ Last(events) = DisconnectedEvent(None)
    /\ EventsOf("Error") = {}
    /\ Cardinality(EventsOf("Disconnected")) = 1

C5_DisconnectAlwaysEndsCleanly ==
    (CallsOf("eof") # {} /\ pc = "done") =>
        /\ Called(DisconnectCall, "ok")
        /\ exitPath = "user"
        /\ EndedCleanly

(***************************************************************************)
(* C5, amended.  On a Disconnect command or a closed command channel the   *)
(* session sends channel EOF, then takes the guard and issues the          *)
(* transport disconnect "User disconnected"; when that disconnect succeeds *)
(* it sends Disconnected(None) and returns cleanly without an Error event; *)
(* when it fails the session fails with a Connection error, reported as    *)
(* Error(m) followed by Disconnected(Some(m)).                             *)
(***************************************************************************)
DisconnectOrder ==
    /\ pc \in {"disc_lock", "disc_transport"} =>
          wire # <<>> /\ Last(wire).call = "eof"
    /\ pc \in {"disc_transport", "emit_disc_none"} => lock = -1
    /\ \A i \in CallsOf(DisconnectCall) :
          i = Len(wire) /\ i > 1 /\ wire[i - 1].call = "eof"
    /\ \A i \in CallsOf("eof") :
          \A j \in DOMAIN wire : j > i => wire[j].call = DisconnectCall

DisconnectOutcome ==
    /\ Called(DisconnectCall, "ok") =>
          /\ pc \in {"emit_disc_none", "done"}
          /\ EventsOf("Error") = {}
          /\ pc = "done" => exitPath = "user" /\ EndedCleanly
    /\ Called(DisconnectCall, "error") =>
          /\ exitPath = "error"
          /\ result = AppError("Connection", "russh error")
          /\ pc = "done" => EndsWithErrorReport(to_string(result))

\* The Disconnect command is taken off the queue.
ReceivesDisconnect ==
    /\ pc = "main"
    /\ cmdq # <<>>
    /\ Head(cmdq).type = "Disconnect"
    /\ cmdq' = Tail(cmdq)

\* The only ways into the disconnect sequence, and where they lead.
DisconnectTrigger ==
    /\ ReceivesDisconnect => pc' = "disc_eof"
    /\ (pc = "main" /\ pc' = "disc_eof") =>
          \/ cmdq # <<>> /\ Head(cmdq).type = "Disconnect"
          \/ cmdq = <<>> /\ cmdClosed

C5_DisconnectSequence ==
    /\ [](DisconnectOrder /\ DisconnectOutcome)
    /\ [][DisconnectTrigger]_vars

\* The senders were dropped, and the session ended cleanly after EOF and a
\* successful transport disconnect, with a relay task present.
C5_Witness ==
    /\ pc = "done"
    /\ exitPath = "user"
    /\ cmdClosed
    /\ cmdSent = 0
    /\ conns # <<>>
    /\ Len(wire) >= 2
    /\ wire[Len(wire) - 1].call = "eof"
    /\ Last(wire) = Call(DisconnectCall, "ok")
    /\ EndedCleanly

(***************************************************************************)
(* C6.  When the shell channel reports EOF or its message stream ends, the *)
(* session sends Disconnected(None) and the task returns; it sends no      *)
(* Error event and no transport call follows.                              *)
(***************************************************************************)
C6_RemoteCloseEndsQuietly ==
    \A i \in CallsOf("wait") :
        /\ i = Len(wire)
        /\ pc = "done"
        /\ exitPath = "remote"
        /\ EndedCleanly

\* The channel delivered Data and then EOF; the task has returned.
C6_Witness ==
    /\ Called("wait", "Eof")
    /\ pc = "done"
    /\ EventsOf("Data") # {}
    /\ Last(events) = DisconnectedEvent(None)

(***************************************************************************)
(* C7.  A tunnel's listener lives only as long as its session: once the    *)
(* session task has ended, no listener it started is still bound or        *)
(* accepting, and no TunnelEstablished / TunnelFailed of the session was   *)
(* sent after the session's Disconnected event.                            *)
(***************************************************************************)
C7_ListenersEndWithSession ==
    SessionEnded =>
        \A i \in DOMAIN listeners :
            /\ ~Listening(listeners[i])
            /\ \A k \in DOMAIN listeners[i].sent : ~listeners[i].sent[k].late

(***************************************************************************)
(* C8.  At session start exactly the profile's tunnels with enabled = true *)
(* are started, in profile order; for a tunnel with enabled = false no     *)
(* listener task exists on behalf of the profile, nothing is bound and no  *)
(* TunnelEstablished / TunnelFailed for its id is sent.                    *)
(***************************************************************************)
IdAddr(x) == [id |-> x.id, addr |-> x.addr]
IdAddrs(seq) == [k \in DOMAIN seq |-> IdAddr(seq[k])]

IsEnabled(tc) == tc.enabled
FromProfile(l) == l.origin = "profile"

EnabledIds ==
    {profile.tunnels[k].id :
        k \in {j \in DOMAIN profile.tunnels : profile.tunnels[j].enabled}}

TunnelsStarted == Called("request_shell", "ok")

C8_OnlyEnabledTunnelsStart ==
    LET started == SelectSeq(listeners, FromProfile) IN
    /\ TunnelsStarted => IdAddrs(started) = IdAddrs(SelectSeq(profile.tunnels, IsEnabled))
    /\ ~TunnelsStarted => listeners = <<>>
    /\ \A i \in DOMAIN started :
          /\ started[i].id \in EnabledIds
          /\ \A k \in DOMAIN started[i].sent : started[i].sent[k].id \in EnabledIds

\* A profile with an enabled and a disabled tunnel: the enabled one has
\* reported, the disabled one has no task.
C8_Witness ==
    /\ Len(profile.tunnels) = 2
    /\ profile.tunnels[1].enabled
    /\ ~profile.tunnels[2].enabled
    /\ pc = "main"
    /\ Len(listeners) = 1
    /\ listeners[1].id = profile.tunnels[1].id
    /\ listeners[1].sent # <<>>

(***************************************************************************)
(* C9.  Starting a tunnel whose local address is already bound sends       *)
(* TunnelFailed(id, reason) for that tunnel and nothing else: the failing  *)
(* bind and its report change only that listener task, so the session task *)
(* (its position in the main loop, its events, the calls it made, the      *)
(* command queue) and every other tunnel are as before; the failed tunnel  *)
(* never listens and never sends TunnelEstablished.                        *)
(***************************************************************************)
BindFailed(l) == l.err = "bind"

OnlyListenerChanges(i) ==
    /\ UNCHANGED <<sessVars, events, uiVars, chanData, lock, conns>>
    /\ Len(listeners') = Len(listeners)
    /\ \A j \in DOMAIN listeners : j # i => listeners'[j] = listeners[j]

BindFailureIsLocal ==
    \A i \in DOMAIN listeners :
        /\ (/\ listeners[i].pc = "bind"
            /\ AddrInUse(listeners[i].addr, i)
            /\ listeners'[i] # listeners[i]) =>
              /\ OnlyListenerChanges(i)
              /\ listeners'[i] = [listeners[i] EXCEPT !.pc = "emit_fail", !.err = "bind"]
        /\ (/\ listeners[i].pc = "emit_fail"
            /\ BindFailed(listeners[i])
            /\ listeners'[i] # listeners[i]) =>
              /\ OnlyListenerChanges(i)
              /\ listeners'[i].pc = "stopped"
              /\ listeners'[i].sent =
                    <<[type |-> "TunnelFailed", id |-> listeners[i].id,
                       msg |-> <<"bind">>, late |-> SessionEnded]>>

BindFailedNeverListens ==
    \A i \in DOMAIN listeners :
        BindFailed(listeners[i]) =>
            /\ listeners[i].pc \in {"emit_fail", "stopped"}
            /\ \A k \in DOMAIN listeners[i].sent :
                  listeners[i].sent[k].type = "TunnelFailed"
            /\ Len(listeners[i].sent) <= 1

C9_BindFailureIsLocal ==
    /\ []BindFailedNeverListens
    /\ [][BindFailureIsLocal]_vars

\* A StartTunnel on the address of a listening tunnel has failed and
\* reported; the session is in its main loop and the other tunnel listens.
C9_Witness ==
    /\ pc = "main"
    /\ \E i, j \in DOMAIN listeners :
          /\ BindFailed(listeners[i])
          /\ listeners[i].pc = "stopped"
          /\ listeners[i].origin = "command"
          /\ listeners[j].pc = "accept"
          /\ listeners[j].addr = listeners[i].addr

(***************************************************************************)
(* C10.  The guard of the transport handle is exclusive: at most one relay *)
(* task is between taking the guard and the answer to its                  *)
(* channel_open_direct_tcpip at any time, that task is the holder, and a   *)
(* task that relays (or has ended, or still waits) does not hold the       *)
(* guard, whether its open succeeded or failed.                            *)
(***************************************************************************)
Opening == {c \in DOMAIN conns : conns[c].pc = "open"}

C10_GuardOnlyAroundChannelOpen ==
    /\ Cardinality(Opening) <= 1
    /\ \A c \in DOMAIN conns :
          /\ conns[c].pc = "open" => lock = c
          /\ conns[c].pc \in {"lock", "relay", "closed"} => lock # c
    /\ lock = -1 => Opening = {}

\* One relay task relays while another is inside its channel open.
C10_Witness ==
    \E c, d \in DOMAIN conns :
        /\ conns[c].pc = "open"
        /\ conns[d].pc = "relay"
        /\ lock = c

(***************************************************************************)
(* C11.  Per-connection tunnel failures are local: the step in which one   *)
(* connection's channel open fails, or its relay ends (either direction    *)
(* closed or failed), ends only that connection's task.  Every listener is *)
(* as before (the connection's own listener still accepts), every other    *)
(* relay task is as before, the guard is free for the next connection, and *)
(* no event is sent by any task.                                           *)
(***************************************************************************)
ConnEnds(c) ==
    /\ conns[c].pc \in {"open", "relay"}
    /\ conns'[c].pc = "closed"

ConnFailureIsLocal ==
    \A c \in DOMAIN conns :
        ConnEnds(c) =>
            /\ UNCHANGED <<listeners, events, sessVars, uiVars, chanData>>
            /\ Len(conns') = Len(conns)
            /\ \A d \in DOMAIN conns : d # c => conns'[d] = conns[d]
            /\ lock' # c
            /\ lock # c => lock' = lock

\* An accepted connection belongs to a listener that reached its accept loop
\* and has reported TunnelEstablished, and a connection's end never changes
\* that: the listener leaves the loop only by its own accept error.
ConnsHaveListener ==
    \A c \in DOMAIN conns :
        LET l == listeners[conns[c].tunnel] IN
        /\ l.pc \in {"accept", "emit_fail", "stopped"}
        /\ l.pc # "accept" => l.err = "accept"
        /\ \A k \in DOMAIN l.sent :
              l.sent[k].type = "TunnelFailed" => l.sent[k].msg = <<"accept">>

C11_ConnectionFailureIsLocal ==
    /\ []ConnsHaveListener
    /\ [][ConnFailureIsLocal]_vars

\* One connection of a tunnel has ended, another of the same tunnel relays
\* and the tunnel's listener is in its accept loop.
C11_Witness ==
    \E c, d \in DOMAIN conns :
        /\ conns[c].pc = "closed"
        /\ conns[d].pc = "relay"
        /\ conns[d].tunnel = conns[c].tunnel
        /\ listeners[conns[c].tunnel].pc = "accept"
        /\ lock = 0

(***************************************************************************)
(* C12.  A TunnelConfig's id identifies at most one running listener task  *)
(* of a session: no two listener tasks with the same tunnel id are bound   *)
(* and listening at the same time, also after StartTunnel commands that    *)
(* carry the id of a tunnel already running.                               *)
(***************************************************************************)
C12_OneListenerPerTunnelId ==
    \A i, j \in DOMAIN listeners :
        (/\ i # j
         /\ listeners[i].id = listeners[j].id
         /\ Listening(listeners[i])) => ~Listening(listeners[j])

(***************************************************************************)
(* C13.  Processing StopTunnel(id) changes nothing: the step that takes    *)
(* the command off the queue leaves every listener, every relay task, the  *)
(* guard, the events and the calls made as they were, and the session task *)
(* is back in its main loop.                                               *)
(***************************************************************************)
ReceivesStopTunnel ==
    /\ pc = "main"
    /\ cmdq # <<>>
    /\ Head(cmdq).type = "StopTunnel"
    /\ cmdq' = Tail(cmdq)

StopTunnelIsNoOp ==
    ReceivesStopTunnel =>
        /\ pc' = "main"
        /\ UNCHANGED <<listeners, conns, lock, events, wire, result, exitPath,
                       pwConsulted, cmdClosed, cmdSent, chanData, inputVars, sftpVars>>

C13_StopTunnelChangesNothing == [][StopTunnelIsNoOp]_vars

\* StopTunnel("t1") has been processed: tunnel t1 still listens, a relay of
\* it still runs and the session is in its main loop.
C13_Witness ==
    /\ pc = "main"
    /\ cmdSent >= 1
    /\ cmdq = <<>>
    /\ \E i \in DOMAIN listeners :
          /\ listeners[i].id = "t1"
          /\ listeners[i].pc = "accept"
          /\ \E c \in DOMAIN conns : conns[c].tunnel = i /\ conns[c].pc = "relay"

(***************************************************************************)
(* Vocabulary of the SFTP properties.                                      *)
(***************************************************************************)
\* The command the engine is handling, and the state it received it in.
Handling(type) == frame.cmd.type = type /\ spc \notin {"s_loop", "s_done"}
EndedOk(type) == frame.cmd.type = type /\ spc = "cmd_ok"
EndedErr(type) == frame.cmd.type = type /\ spc = "cmd_err"

\* The requests of the command being handled, and whether a granted request
\* has failed during it.
OpsOfCommand == sops
EventsOfCommand == sevents
NoFaultInCommand == faults = frame.at.faults

\* The resolved paths of the proper prefixes of path and of path itself.
PrefixKeys(path) ==
    LET key == Resolve(path) IN {SubSeq(key, 1, n) : n \in 2..Len(key)}

Granted(op, key) == Op(op, key, "ok")

(***************************************************************************)
(* Vocabulary of the transfers.                                            *)
(***************************************************************************)
Transferring == Handling("Upload") \/ Handling("Download")

\* The file system a transfer writes to, now and when the command was
\* received.
TargetFs == IF frame.cmd.type = "Upload" THEN remote ELSE localfs
TargetFsAt == IF frame.cmd.type = "Upload" THEN frame.at.remote ELSE frame.at.localfs

IsDecision(o) == o.how # "request"
IsRequest(o) == o.how = "request"
DecisionsOfCommand == SelectSeq(sops, IsDecision)

Removes(o) ==
    /\ o.ok
    /\ o.op \in {"remove_file", "remove_dir", "local_remove_file", "local_remove_dir_all"}
Writes(o) ==
    /\ o.ok
    /\ o.op \in {"create_dir", "open_write", "write", "local_create_dir_all", "local_write"}

ConflictEvents == {i \in DOMAIN sevents : sevents[i].type = "TransferConflict"}

\* A response is awaited: TransferConflict was sent and the engine has not
\* received the response (or the loss of its sender).
AwaitingResponse == response.state # "none"

(***************************************************************************)
(* C14.  Once connected, a command that fails (ListDir, Upload, Download,  *)
(* MkDir, Remove, Rename) makes the engine send one Error event for it and *)
(* go back to receiving commands; the engine ends only by a Disconnect     *)
(* command or when the command channel is closed and empty, and its last   *)
(* event then is Disconnected.                                             *)
(***************************************************************************)
FailedCommandIsReported ==
    (spc = "cmd_err" /\ spc' # spc) =>
        /\ spc' = "s_loop"
        /\ sevents' = Append(sevents, SftpEvent("Error", frame.err.tag, frame.err.path))
        /\ UNCHANGED <<scmdq, scmdClosed, remote, localfs>>

EndsOnlyOnDisconnectOrClose ==
    (spc \notin {"s_connect", "s_channel", "s_subsystem", "s_init",
                 "s_report_error", "s_report_disc", "s_done"}
        /\ spc' \in {"s_report_disc", "s_done"}) =>
        /\ spc = "s_loop"
        /\ spc' = "s_done"
        /\ \/ scmdq # <<>> /\ Head(scmdq).type = "Disconnect"
           \/ scmdq = <<>> /\ scmdClosed
        /\ Last(sevents').type = "Disconnected"

FailureIsOfACommand ==
    spc = "cmd_err" =>
        /\ frame.cmd.type \in {"ListDir", "Upload", "Download", "MkDir", "Remove", "Rename"}
        /\ frame.err # NoErr

C14_CommandFailureIsLocal ==
    /\ []FailureIsOfACommand
    /\ [][FailedCommandIsReported /\ EndsOnlyOnDisconnectOrClose]_vars

\* A Rename has failed and was reported; the engine is back at recv() with
\* the next command waiting.
C14_Witness ==
    /\ spc = "s_loop"
    /\ sevents # <<>>
    /\ Last(sevents).type = "Error"
    /\ Last(sevents).tag = "Failed to rename"
    /\ scmdq # <<>>

(***************************************************************************)
(* C15.  A TransferConflict is sent for a target that exists, and then the *)
(* transfer is suspended: until the engine has received the response it    *)
(* waits in ask_transfer_conflict, TransferConflict for that target is the *)
(* last event it sent, and no step changes the remote or the local file    *)
(* system, makes a request, or sends an event.  A file is transferred      *)
(* without asking only when no target was found (or a decision is          *)
(* remembered).                                                            *)
(***************************************************************************)
SuspendedWhileAwaiting ==
    AwaitingResponse =>
        /\ spc = "ask_wait"
        /\ Transferring
        /\ Last(sevents).type = "TransferConflict"
        /\ Last(sevents).path = frame.ask.path
        /\ Last(sevents).tag = frame.cmd.type
        /\ frame.ask.key \in DOMAIN TargetFs
        /\ Last(sevents).is_dir = TargetFs[frame.ask.key].is_dir

NothingHappensWhileAwaiting ==
    AwaitingResponse =>
        /\ UNCHANGED <<remote, localfs, sevents>>
        /\ SelectSeq(sops', IsRequest) = SelectSeq(sops, IsRequest)

AsksBeforeWriting ==
    /\ (spc = "ask_wait") <=> AwaitingResponse
    /\ (spc \in {"uf_read", "uf_open"} /\ Resolve(frame.xfer.remote_file) \in DOMAIN remote) =>
          faults > frame.at.faults
    /\ spc \in {"df_meta", "df_open", "df_read", "df_mkparent", "df_write"} =>
          frame.xfer.local_file \notin DOMAIN localfs

ResponseLost == frame.err.tag = "Conflict resolution canceled"

RememberedFromApplyToAll ==
    LET d == DecisionsOfCommand
        all == {i \in DOMAIN d : d[i].how = "asked_all"}
    IN /\ (conflict_policy # "None") <=> (all # {})
       /\ \A i \in all : conflict_policy = d[i].op
       /\ \A i \in all : \A j \in DOMAIN d :
             j > i => d[j].how = "remembered" /\ d[j].op = d[i].op
       /\ \A j \in DOMAIN d :
             d[j].how = "remembered" => \E i \in all : i < j
       /\ Cardinality(ConflictEvents) =
             Cardinality({i \in DOMAIN d : d[i].how # "remembered"})
                + (IF AwaitingResponse \/ ResponseLost THEN 1 ELSE 0)

C16_ApplyToAllCoversOneCommand ==
    /\ Transferring => RememberedFromApplyToAll
    /\ spc \in {"s_loop", "up_stat", "dn_stat"} => conflict_policy = "None"

\* An upload with two conflicts: the first was answered ReplaceWithIncoming
\* with apply_to_all, the second was resolved without a TransferConflict.
C16_Witness ==
    /\ Handling("Upload")
    /\ Len(DecisionsOfCommand) = 2
    /\ DecisionsOfCommand[1].how = "asked_all"
    /\ DecisionsOfCommand[1].op = "ReplaceWithIncoming"
    /\ DecisionsOfCommand[2].how = "remembered"
    /\ Cardinality(ConflictEvents) = 1

(***************************************************************************)
(* C17.  Within one Upload or Download command: after KeepExisting for a   *)
(* target, the target and everything beneath it is as it was when the      *)
(* command was received, no request on it is granted, and no               *)
(* TransferProgress or TransferComplete carries its name; after            *)
(* ReplaceWithIncoming for a target, every granted creation or write at or *)
(* beneath it comes after the granted removal of the target, and of        *)
(* everything that was beneath it.                                         *)
(***************************************************************************)
KeptIsUntouched(key) ==
    /\ \A k \in DOMAIN TargetFs \cup DOMAIN TargetFsAt :
          IsUnder(k, key) =>
              /\ k \in DOMAIN TargetFs
              /\ k \in DOMAIN TargetFsAt
              /\ TargetFs[k] = TargetFsAt[k]
    /\ \A j \in DOMAIN sops :
          (IsRequest(sops[j]) /\ IsUnder(sops[j].key, key)) => ~sops[j].ok
    /\ \A e \in DOMAIN sevents :
          sevents[e].type \in {"TransferProgress", "TransferComplete"} =>
              sevents[e].path # Name(key)

RemovedBefore(key, i, j) ==
    \E m \in DOMAIN sops :
        /\ i < m
        /\ m < j
        /\ Removes(sops[m])
        /\ \/ sops[m].key = key
           \/ sops[m].op = "local_remove_dir_all" /\ IsUnder(key, sops[m].key)

ReplacedIsRemovedFirst(key, i) ==
    \A j \in DOMAIN sops :
        (Writes(sops[j]) /\ IsUnder(sops[j].key, key)) =>
            /\ j > i
            /\ \A k \in DOMAIN TargetFsAt : IsUnder(k, key) => RemovedBefore(k, i, j)

C17_DecisionsTakeEffect ==
    Transferring =>
        \A i \in DOMAIN sops :
            /\ sops[i].op = "KeepExisting" => KeptIsUntouched(sops[i].key)
            /\ sops[i].op = "ReplaceWithIncoming" => ReplacedIsRemovedFirst(sops[i].key, i)

\* An upload has ended where the directory /r/d/f was replaced by the
\* incoming file and the file /r/d/s was kept.
C17_Witness ==
    /\ EndedOk("Upload")
    /\ \E i, j \in DOMAIN sops :
          /\ sops[i] = Decided("ReplaceWithIncoming", Append(RemoteD, <<"f">>), "asked")
          /\ sops[j] = Decided("KeepExisting", Append(RemoteD, <<"s">>), "asked")
    /\ remote[Append(RemoteD, <<"f">>)] = FileEntry("new", 1)
    /\ remote[Append(RemoteD, <<"s">>)] = FileEntry("old", 1)
    /\ Append(Append(RemoteD, <<"f">>), <<"h">>) \notin DOMAIN remote

(***************************************************************************)
(* C18.  remove_remote_entry_recursive(path) on a directory with files and *)
(* nested subdirectories: when it returns Ok nothing exists at or under    *)
(* path; it returns Ok for an existing path unless a granted request       *)
(* failed; the remove_dir of a visited directory is requested only when    *)
(* nothing is left in it, and in the order of the granted removals every   *)
(* child comes before its parent.                                          *)
(***************************************************************************)
ChildrenRemovedFirst ==
    /\ spc = "rm_dir" => Children(remote, Resolve(frame.rm.current)) = {}
    /\ \A i, j \in DOMAIN sops :
          (/\ sops[i].ok
           /\ sops[j].ok
           /\ Len(sops[i].key) > 1
           /\ Parent(sops[i].key) = sops[j].key) => i < j

C18_RemoveLeavesNothing ==
    /\ ChildrenRemovedFirst
    /\ EndedOk("Remove") =>
          \A k \in DOMAIN remote : ~IsUnder(k, Resolve(frame.cmd.path))
    /\ (EndedErr("Remove") /\ Resolve(frame.cmd.path) \in DOMAIN frame.at.remote) =>
          ~NoFaultInCommand

\* Remove("/a") has returned Ok with no failed request, where /a held a
\* file, and a directory holding a file and a directory.
C18_Witness ==
    /\ EndedOk("Remove")
    /\ frame.cmd.path = PathA
    /\ faults = 0
    /\ IsFileAt(frame.at.remote, KeyAF)
    /\ IsFileAt(frame.at.remote, KeyABG)
    /\ IsDirAt(frame.at.remote, KeyABD)
    /\ Len(OpsOfCommand) = 5
    /\ OpsOfCommand[5] = Granted("remove_dir", KeyA)
    /\ DOMAIN remote = {<<Root>>, <<Cwd>>}

(***************************************************************************)
(* C19.  ensure_remote_dir("/a/b/c") when none of /a, /a/b, /a/b/c exists  *)
(* creates /a, then /a/b, then /a/b/c and nothing else; ensure_remote_dir  *)
(* of a path whose prefixes are all directories already makes no request   *)
(* that creates or deletes, and returns Ok (no granted request failing).   *)
(***************************************************************************)
AllPrefixesAreDirs(fs, path) == \A k \in PrefixKeys(path) : IsDirAt(fs, k)

CreatesInOrder ==
    (/\ Handling("MkDir")
     /\ frame.cmd.path = PathABC
     /\ KeyA \notin DOMAIN frame.at.remote
     /\ NoFaultInCommand) =>
        /\ spc # "cmd_err"
        /\ \E n \in 0..3 :
              OpsOfCommand = SubSeq(<<Granted("create_dir", KeyA),
                                      Granted("create_dir", KeyAB),
                                      Granted("create_dir", KeyABC)>>, 1, n)
        /\ spc = "cmd_ok" => Len(OpsOfCommand) = 3

Idempotent ==
    (/\ Handling("MkDir")
     /\ AllPrefixesAreDirs(frame.at.remote, frame.cmd.path)
     /\ NoFaultInCommand) =>
        /\ spc # "cmd_err"
        /\ OpsOfCommand = <<>>
        /\ remote = frame.at.remote

C19_CreatesInOrderAndIsIdempotent == CreatesInOrder /\ Idempotent

\* The second command, MkDir("/a/b/c"), has returned Ok without a request:
\* the three directories existed when it was received.
C19_Witness ==
    /\ EndedOk("MkDir")
    /\ frame.cmd.path = PathABC
    /\ faults = 0
    /\ scmdSent = 2
    /\ scmdq = <<>>
    /\ AllPrefixesAreDirs(frame.at.remote, PathABC)
    /\ OpsOfCommand = <<>>

(***************************************************************************)
(* C20.  For every path and every tree: when ensure_remote_dir(path)       *)
(* returns Ok every prefix of path is a directory; a prefix that was no    *)
(* directory has been deleted and then created as a directory, with no     *)
(* TransferConflict; a prefix that was a directory is neither deleted nor  *)
(* modified at any time, and every entry that is no prefix is as it was.   *)
(***************************************************************************)
ReplacedByDirectory(key) ==
    \E i, j \in DOMAIN OpsOfCommand :
        /\ i < j
        /\ OpsOfCommand[i] = Granted("remove_file", key)
        /\ OpsOfCommand[j] = Granted("create_dir", key)

Untouched(key) ==
    /\ key \in DOMAIN remote
    /\ remote[key] = frame.at.remote[key]
    /\ \A i \in DOMAIN OpsOfCommand :
          OpsOfCommand[i].key = key => ~OpsOfCommand[i].ok

C20_EveryPrefixBecomesDirectory ==
    Handling("MkDir") =>
        LET prefixes == PrefixKeys(frame.cmd.path) IN
        /\ spc = "cmd_ok" =>
              /\ AllPrefixesAreDirs(remote, frame.cmd.path)
              /\ \A k \in prefixes :
                    IsFileAt(frame.at.remote, k) => ReplacedByDirectory(k)
        /\ \A k \in DOMAIN frame.at.remote :
              (IsDirAt(frame.at.remote, k) \/ k \notin prefixes) => Untouched(k)
        /\ \A i \in DOMAIN EventsOfCommand :
              EventsOfCommand[i].type # "TransferConflict"

\* MkDir("/a/b/c") has returned Ok where /a was a directory and /a/b a
\* file: /a/b was deleted and created, /a/b/c created.
C20_Witness ==
    /\ EndedOk("MkDir")
    /\ frame.cmd.path = PathABC
    /\ IsDirAt(frame.at.remote, KeyA)
    /\ IsFileAt(frame.at.remote, KeyAB)
    /\ OpsOfCommand = <<Granted("remove_file", KeyAB), Granted("create_dir", KeyAB),
                        Granted("create_dir", KeyABC)>>
    /\ AllPrefixesAreDirs(remote, PathABC)

(***************************************************************************)
(* C30.  When the setup of the SFTP engine fails (establish_session,       *)
(* channel open, sftp subsystem request, SFTP initialisation) the engine   *)
(* sends exactly Error and then Disconnected, never Connected, and takes   *)
(* no command off the queue and makes no request; Connected is sent only  *)
(* by the step that initialised the SFTP session, as the first event.      *)
(***************************************************************************)
SetupPositions == {"s_connect", "s_channel", "s_subsystem", "s_init"}
SetupFailed == frame.cmd = NoCommand /\ frame.err # NoErr

SetupFailureIsReportedOnce ==
    SetupFailed =>
        /\ spc \in {"s_report_error", "s_report_disc", "s_done"}
        /\ sevents = CASE spc = "s_report_error" -> <<>>
                       [] spc = "s_report_disc" ->
                            <<SftpEvent("Error", frame.err.tag, NoPath)>>
                       [] OTHER ->
                            <<SftpEvent("Error", frame.err.tag, NoPath),
                              SftpEvent("Disconnected", "none", NoPath)>>
        /\ Len(scmdq) = scmdSent
        /\ sops = <<>>

NothingBeforeConnected ==
    spc \in SetupPositions => sevents = <<>> /\ Len(scmdq) = scmdSent /\ sops = <<>>

ConnectedAfterInit ==
    \A i \in DOMAIN sevents' :
        (sevents'[i].type = "Connected" /\ i \notin DOMAIN sevents) =>
            /\ spc = "s_init"
            /\ spc' = "s_loop"
            /\ sevents = <<>>
            /\ i = 1

C30_SftpSetupFailureIsReported ==
    /\ [](SetupFailureIsReportedOnce /\ NothingBeforeConnected)
    /\ [][ConnectedAfterInit]_vars

\* The sftp subsystem request failed with two commands waiting; the engine
\* has reported and ended.
C30_Witness ==
    /\ spc = "s_done"
    /\ frame.err.tag = "Failed to request SFTP subsystem"
    /\ Len(scmdq) = 2
    /\ Len(sevents) = 2

(***************************************************************************)
(* C29.  Session setup runs in a fixed order: Connected is sent after the  *)
(* server accepted an authentication call and before the session channel   *)
(* is opened; the PTY (xterm-256color, 80 columns, 24 rows) is requested   *)
(* before the shell; tunnels are started only after the shell request      *)
(* succeeded.  When the channel open, the PTY request or the shell request *)
(* fails, no tunnel is started and Connected is followed by Error and      *)
(* Disconnected(Some(reason)).                                             *)
(***************************************************************************)
ChannelSetupCalls == <<"channel_open_session", "request_pty", "request_shell">>

AuthAccepted == \E i \in AuthCalls : wire[i].ret = "accepted"

\* The calls made on the wire after authentication, in order.
CallsAfterAuth ==
    LET IsSetup(c) == \E k \in DOMAIN ChannelSetupCalls : c.call = ChannelSetupCalls[k]
    IN  SelectSeq(wire, IsSetup)

ChannelSetupFailed ==
    \E k \in DOMAIN ChannelSetupCalls :
        \E i \in CallsOf(ChannelSetupCalls[k]) : wire[i].ret = "error"

SetupOrderKept ==
    /\ Cardinality(EventsOf("Connected")) <= 1
    /\ EventsOf("Connected") # {} => AuthAccepted
    /\ CallsAfterAuth # <<>> => EventsOf("Connected") # {}
    /\ Len(CallsAfterAuth) <= Len(ChannelSetupCalls)
    /\ \A k \in DOMAIN CallsAfterAuth :
          /\ CallsAfterAuth[k].call = ChannelSetupCalls[k]
          /\ k > 1 => CallsAfterAuth[k - 1].ret = "ok"
    /\ \A i \in CallsOf("request_pty") :
          /\ wire[i].term = "xterm-256color"
          /\ wire[i].cols = 80
          /\ wire[i].rows = 24
    /\ listeners # <<>> => Called("request_shell", "ok")

FailedSetupIsReported ==
    ChannelSetupFailed =>
        /\ listeners = <<>>
        /\ pc \in {"report_error", "report_disc", "done"}
        /\ result = AppError("Connection", "russh error")
        /\ pc = "done" =>
              /\ Len(events) >= 3
              /\ events[Len(events) - 2] = SshEvent("Connected", NoId, None)
              /\ EndsWithErrorReport(to_string(result))

\* Connected is sent in a step of its own, taken when no channel is open yet.
ConnectedBeforeChannel ==
    EventsOf("Connected")' # EventsOf("Connected") =>
        /\ wire' = wire
        /\ CallsAfterAuth = <<>>
        /\ AuthAccepted

C29_SetupOrder ==
    /\ [](SetupOrderKept /\ FailedSetupIsReported)
    /\ [][ConnectedBeforeChannel]_vars

\* The PTY request failed after Connected; the profile has an enabled tunnel,
\* none was started, and the task has ended.
C29_Witness ==
    /\ pc = "done"
    /\ \E i \in CallsOf("request_pty") : wire[i] = PtyRequest("error")
    /\ \E i \in DOMAIN profile.tunnels : profile.tunnels[i].enabled
    /\ listeners = <<>>
    /\ EventsOf("Connected") # {}


(***************************************************************************)
(* C26.  The host-key verifier runs once per handshake: a session sends at *)
(* most one HostKeyVerify, exactly one once connect has returned Ok, and   *)
(* it carries the key type and the fingerprint of the key the server       *)
(* presented.  The verifier accepts every key, whatever the send of the    *)
(* event returned: its step never fails the connect.  HostKeyVerify        *)
(* precedes Connected in the session's events.                             *)
(***************************************************************************)
KeyTypeNames ==
    [Ed25519 |-> "ssh-ed25519", RSA |-> "ssh-rsa", EC |-> "ecdsa-sha2-nistp256"]

OneHostKeyVerify ==
    /\ Cardinality(EventsOf("HostKeyVerify")) <= 1
    /\ Called("connect", "ok") => Cardinality(EventsOf("HostKeyVerify")) = 1
    /\ \A i \in EventsOf("HostKeyVerify") :
          /\ events[i].msg[1] = KeyTypeNames[serverKey]
          /\ events[i].msg[2] = fingerprint(serverKey)
    /\ \A i \in EventsOf("Connected") : \E j \in EventsOf("HostKeyVerify") : j < i

\* The step of the verifier hands the handshake on; it raises no error.
VerifierAccepts ==
    EventsOf("HostKeyVerify")' # EventsOf("HostKeyVerify") =>
        /\ pc = "connect"
        /\ pc' = "kex"
        /\ result' = result
        /\ exitPath' = exitPath

C26_HostKeyAlwaysAccepted ==
    /\ []OneHostKeyVerify
    /\ [][VerifierAccepts]_vars

\* An RSA key was presented, announced as ssh-rsa, and the session connected.
C26_Witness ==
    /\ serverKey = "RSA"
    /\ Len(events) >= 2
    /\ events[1] = SshEvent("HostKeyVerify", NoId, <<"ssh-rsa", "SHA256:RSA">>)
    /\ events[2].type = "Connected"


(***************************************************************************)
(* C24.  Secrets are not retained past session establishment: from the     *)
(* Connected event onward neither the session task nor the SFTP engine     *)
(* holds the password.  (The key passphrase is a parameter of the same     *)
(* functions with the same lifetime.)                                      *)
(***************************************************************************)
\* password is an owned parameter of run_session, like cmd_rx: it is only
\* borrowed (as_deref) and lives until run_session returns.
SessionHoldsPassword == password = "Some" /\ ReceiverAlive

\* The same for run_sftp_session, which lends it to establish_session.
EngineHoldsPassword == password = "Some" /\ SftpReceiverAlive

C24_SecretsDroppedAfterAuth ==
    /\ EventsOf("Connected") # {} => ~SessionHoldsPassword
    /\ (\E i \in DOMAIN sevents : sevents[i].type = "Connected") => ~EngineHoldsPassword


(***************************************************************************)
(* The path functions of sftp.rs on their own: one call of                 *)
(* join_remote_path or remote_basename on strings over '/', 'a', 'b' of up *)
(* to MaxPathLen characters; arg holds the call, out its result.           *)
(***************************************************************************)
MaxPathLen == 3
PathChars == {Slash, "a", "b"}
PathStrings == UNION {[1..n -> PathChars] : n \in 0..MaxPathLen}

PathCalls ==
    {<<"join_remote_path", base, name>> : base \in PathStrings, name \in PathStrings}
    \cup {<<"remote_basename", path, <<>>>> : path \in PathStrings}

InitPaths ==
    /\ OneInput
    /\ SftpQuiet
    /\ arg \in PathCalls
    /\ out = NoArg

CallJoin ==
    /\ arg[1] = "join_remote_path"
    /\ out = NoArg
    /\ out' = <<join_remote_path(arg[2], arg[3])>>
    /\ UNCHANGED <<sessionVars, engineVars, sinkVars, arg>>

CallBasename ==
    /\ arg[1] = "remote_basename"
    /\ out = NoArg
    /\ out' = <<remote_basename(arg[2])>>
    /\ UNCHANGED <<sessionVars, engineVars, sinkVars, arg>>

NextPaths ==
    \/ CallJoin
    \/ CallBasename

SpecPaths == InitPaths /\ [][NextPaths]_vars

(***************************************************************************)
(* C28.  For every base and name, join_remote_path(base, name) is the base *)
(* without its trailing '/' characters, one '/', and the name (so "/name"  *)
(* for the base "/"); remote_basename(path) ignores trailing '/'           *)
(* characters, returns the last non-empty segment, and "/" for the root.   *)
(***************************************************************************)
Joined(call) == call[1] = "join_remote_path" /\ out # NoArg
Named(call) == call[1] = "remote_basename" /\ out # NoArg

TrailingSlashes(s) == Len(s) - Len(trim_end_matches(s, Slash))

\* s ends with the segment seg: seg holds no '/', and is the whole of s or
\* comes right after a '/'.
EndsWithSegment(s, seg) ==
    /\ seg # <<>>
    /\ \A i \in DOMAIN seg : seg[i] # Slash
    /\ Len(s) >= Len(seg)
    /\ SubSeq(s, Len(s) - Len(seg) + 1, Len(s)) = seg
    /\ Len(s) > Len(seg) => s[Len(s) - Len(seg)] = Slash

BasenameIsLastSegment ==
    Named(arg) =>
        LET path == arg[2]
            trimmed == trim_end_matches(path, Slash)
        IN  IF trimmed = <<>>
            THEN out[1] = <<Slash>>
            ELSE EndsWithSegment(trimmed, out[1])

C28_RemotePathAlgebra ==
    /\ Joined(arg) => out[1] = trim_end_matches(arg[2], Slash) \o <<Slash>> \o arg[3]
    /\ BasenameIsLastSegment

(***************************************************************************)
(* C28, amended.  join_remote_path(base, name) is the name alone for the   *)
(* empty base, base followed by name for a base that ends with '/' (so     *)
(* "/name" for the base "/", and no '/' is removed from a base that ends   *)
(* with several), and base, one '/', name otherwise.  remote_basename is   *)
(* as claimed.                                                             *)
(***************************************************************************)
C28_RemotePathAlgebraNonEmptyBase ==
    /\ Joined(arg) =>
          LET base == arg[2]
              name == arg[3]
          IN  /\ base = <<>> => out[1] = name
              /\ TrailingSlashes(base) >= 1 => out[1] = base \o name
              /\ (base # <<>> /\ TrailingSlashes(base) <= 1) =>
                    out[1] = trim_end_matches(base, Slash) \o <<Slash>> \o name
              /\ base = <<Slash>> => out[1] = <<Slash>> \o name
    /\ BasenameIsLastSegment

\* The empty base joined with "a" gave "a"; or "/a/" has the basename "a".
C28_Witness ==
    \/ arg = <<"join_remote_path", <<>>, <<"a">>>> /\ out = <<<<"a">>>>
    \/ arg = <<"remote_basename", <<Slash, "a", Slash>>, <<>>>> /\ out = <<<<"a">>>>


(***************************************************************************)
(* The listing of ListDir on its own: read_dir answers with up to          *)
(* MaxEntries entries of different names, "." and ".." among them, in any  *)
(* order; arg holds the answer, out the entries of the DirListing.         *)
(***************************************************************************)
MaxEntries == 3
ListingNames == {<<Dot>>, DotDot, <<"A">>, <<"a">>, <<"B">>, <<"b">>, <<"a", "B">>}
RawEntries == [name : ListingNames, is_dir : BOOLEAN]

ReadDirResults ==
    UNION {{v \in [1..n -> RawEntries] :
               \A i, j \in 1..n : v[i].name = v[j].name => i = j} : n \in 0..MaxEntries}

InitListing ==
    /\ OneInput
    /\ SftpQuiet
    /\ arg \in ReadDirResults
    /\ out = NoArg

CallListing ==
    /\ out = NoArg
    /\ out' = <<listing(arg)>>
    /\ UNCHANGED <<sessionVars, engineVars, sinkVars, arg>>

NextListing == CallListing

SpecListing == InitListing /\ [][NextListing]_vars

(***************************************************************************)
(* C27.  A DirListing never contains "." or "..", and its entries are      *)
(* ordered with all directories before all non-directories and, within     *)
(* each group, ascending by case-insensitive name.                         *)
(***************************************************************************)
ListingMade == out # NoArg

Range(v) == {v[i] : i \in DOMAIN v}

\* s is not after t in the order of the lower-cased names.
CaseInsensitiveLeq(s, t) ==
    LET ls == to_lowercase(s)
        lt == to_lowercase(t)
        Common == {i \in DOMAIN ls : i \in DOMAIN lt}
        Differ == {i \in Common : ls[i] # lt[i]}
    IN  IF Differ = {}
        THEN Len(ls) <= Len(lt)
        ELSE LET d == CHOOSE i \in Differ : \A j \in Differ : i <= j
             IN  CharCode(ls[d]) < CharCode(lt[d])

C27_ListingIsSorted ==
    ListingMade =>
        LET entries == out[1] IN
        /\ \A i \in DOMAIN entries :
              entries[i].name # <<".">> /\ entries[i].name # <<".", ".">>
        /\ Range(entries) = {e \in Range(arg) : e.name \notin {<<".">>, <<".", ".">>}}
        /\ Len(entries) = Cardinality(Range(entries))
        /\ \A i, j \in DOMAIN entries :
              i < j =>
                 /\ entries[j].is_dir => entries[i].is_dir
                 /\ entries[i].is_dir = entries[j].is_dir =>
                       CaseInsensitiveLeq(entries[i].name, entries[j].name)

\* read_dir answered "B" (file), "A" (directory), "a" (file), and the listing
\* is "A", "a", "B".
C27_Witness ==
    /\ arg = <<[name |-> <<"B">>, is_dir |-> FALSE],
               [name |-> <<"A">>, is_dir |-> TRUE],
               [name |-> <<"a">>, is_dir |-> FALSE]>>
    /\ out = <<<<[name |-> <<"A">>, is_dir |-> TRUE],
                 [name |-> <<"a">>, is_dir |-> FALSE],
                 [name |-> <<"B">>, is_dir |-> FALSE]>>>>


(***************************************************************************)
(* Round trip: locally /d is a directory tree of files (empty, of one byte *)
(* and of more than one chunk) and directories (empty ones too), /e is an  *)
(* empty directory; the server holds the empty directory /r.  The UI sends *)
(* Upload of /d to "/r/d", then Download of "/r/d" into /e.                *)
(***************************************************************************)
RoundTripFiles ==
    {FileEntry("x", 0), FileEntry("y", 1), FileEntry("z", chunk_size + 1)}

RoundTripKeys ==
    {Append(LocalD, <<"f">>), Append(LocalD, <<"s">>),
     Append(Append(LocalD, <<"s">>), <<"g">>)}

RoundTripLocals ==
    {fs \in UNION {[D \cup {<<Root>>, <<Cwd>>, LocalD, LocalE} ->
                       {DirEntry} \cup RoundTripFiles] : D \in SUBSET RoundTripKeys} :
        /\ WellFormed(fs)
        /\ fs[LocalD] = DirEntry
        /\ fs[LocalE] = DirEntry}

RoundTripCommands ==
    <<SftpCommand("Upload", PathRD, LocalD, NoPath),
      SftpCommand("Download", PathRD, LocalE, NoPath)>>

\* The UI sends the upload, then the download, and nothing else.
UiSendRoundTrip ==
    /\ scmdSent < Len(RoundTripCommands)
    /\ UiSftpSendOf({RoundTripCommands[scmdSent + 1]})

InitRoundTrip ==
    /\ OneProfile
    /\ SftpSpawned
    /\ remote = (KeyR :> DirEntry) @@ NoFiles
    /\ localfs \in RoundTripLocals

\* Nothing is in the way of either transfer, so no conflict is raised and
\* nothing is removed: the steps that follow a decision are left out.
NextRoundTrip ==
    \/ SftpLoopStep
    \/ EnsureMeta
    \/ EnsureCreate
    \/ UploadStat
    \/ UploadRootMeta
    \/ UploadRootWalk
    \/ UploadWalk
    \/ UploadDirMeta
    \/ UploadDirPush
    \/ UploadFileMeta
    \/ UploadFileRead
    \/ UploadFileOpen
    \/ UploadFileWrite
    \/ UploadFileShutdown
    \/ DownloadStat
    \/ DownloadRootMkDir
    \/ DownloadWalk
    \/ DownloadDirMkDir
    \/ DownloadFileMeta
    \/ DownloadFileOpen
    \/ DownloadFileRead
    \/ DownloadFileMkParent
    \/ DownloadFileWrite
    \/ UiSendRoundTrip
    \/ UiSftpDropSenders

SpecRoundTrip == InitRoundTrip /\ [][NextRoundTrip]_vars

(***************************************************************************)
(* C21.  Uploading a local directory tree to a remote path that does not   *)
(* exist and then downloading that remote directory into an empty local    *)
(* directory reproduces the same relative paths and, for every file, the   *)
(* same contents: after the upload the remote tree equals the local one,   *)
(* after the download the new local tree equals the remote one, and so     *)
(* the original.                                                           *)
(***************************************************************************)
RelativePaths(fs, top) == {strip_prefix(k, top) : k \in {c \in DOMAIN fs : IsUnder(c, top)}}

SameTree(fsA, topA, fsB, topB) ==
    /\ RelativePaths(fsA, topA) = RelativePaths(fsB, topB)
    /\ \A rel \in RelativePaths(fsA, topA) : fsA[topA \o rel] = fsB[topB \o rel]

DownloadedD == Append(LocalE, <<"d">>)

\* No request has failed so far, so the upload before this download ended
\* without an error.
AfterRoundTrip == EndedOk("Download") /\ faults = 0 /\ frame.at.remote # (KeyR :> DirEntry) @@ NoFiles

C21_RoundTripReproducesTree ==
    /\ EndedOk("Upload") => SameTree(remote, RemoteD, localfs, LocalD)
    /\ AfterRoundTrip =>
          /\ SameTree(localfs, DownloadedD, remote, RemoteD)
          /\ SameTree(localfs, DownloadedD, localfs, LocalD)

\* The tree /d/f (two chunks), /d/s/g (empty file) has come back as /e/d.
C21_Witness ==
    /\ AfterRoundTrip
    /\ scmdSent = 2
    /\ Append(DownloadedD, <<"f">>) \in DOMAIN localfs
    /\ localfs[Append(DownloadedD, <<"f">>)] = FileEntry("z", chunk_size + 1)
    /\ Append(Append(DownloadedD, <<"s">>), <<"g">>) \in DOMAIN localfs
    /\ localfs[Append(Append(DownloadedD, <<"s">>), <<"g">>)] = FileEntry("x", 0)
    /\ localfs[Append(LocalD, <<"f">>)] = FileEntry("z", chunk_size + 1)


(***************************************************************************)
(* A terminal session and an SFTP engine side by side, as two tabs of one  *)
(* application spawn them: the session task of a profile without tunnels   *)
(* under a UI that sends Disconnect or drops its sender, and the engine on *)
(* a server that holds the directory /r, under a UI that sends ListDir     *)
(* "/r" or Disconnect or drops its sender.                                 *)
(***************************************************************************)
PathR == <<"/", "r">>

BothSessionCommands == {SshCommand("Disconnect", NoTunnel, NoId)}
BothEngineCommands ==
    {SftpCommand("ListDir", PathR, NoKey, NoPath),
     SftpCommand("Disconnect", NoPath, NoKey, NoPath)}

InitBoth ==
    /\ profile = [auth_method |-> "Password", key_pair_id |-> "None", tunnels |-> <<>>]
    /\ password = "Some"
    /\ extBound = {}
    /\ serverKey = "Ed25519"
    /\ Spawned
    /\ NoCall
    /\ SftpSpawned
    /\ remote = (KeyR :> DirEntry) @@ NoFiles
    /\ localfs = NoFiles

NextBoth ==
    \/ check_server_key
    \/ ConnectFail
    \/ ConnectOk
    \/ AuthBegin
    \/ authenticate_password
    \/ EmitConnected
    \/ channel_open_session
    \/ request_pty
    \/ request_shell
    \/ HandleCommand
    \/ CommandChannelClosed
    \/ DisconnectEof
    \/ DisconnectLock
    \/ DisconnectTransport
    \/ DisconnectDone
    \/ ChannelMessage
    \/ ReportError
    \/ ReportDisconnected
    \/ UiSendOf(BothSessionCommands)
    \/ UiDropSenders
    \/ SftpLoopStep
    \/ ListDir
    \/ UiSftpSendOf(BothEngineCommands)
    \/ UiSftpDropSenders

SpecBoth == InitBoth /\ [][NextBoth]_vars


(***************************************************************************)
(* C25.  The session task and the SFTP engine have independent lifecycles: *)
(* no step of one (its disconnect, its failure, the drop of its command    *)
(* sender among them) changes the state of the other or adds an event to   *)
(* the other's events, and each ends only for a reason of its own.         *)
(***************************************************************************)
SessionMoved == sessionVars' # sessionVars
EngineMoved == engineVars' # engineVars

OneTaskPerStep ==
    /\ SessionMoved => engineVars' = engineVars
    /\ EngineMoved => sessionVars' = sessionVars

\* The session ends on its own error, after its own transport disconnect or
\* when its own shell channel has ended; the engine on its own setup failure, its own Disconnect command or the
\* drop of its own command senders.
EndsAreOwn ==
    /\ pc = "done" =>
          \/ exitPath = "error" /\ result # NoError
          \/ exitPath = "user" /\ CallsOf(DisconnectCall) # {}
          \/ exitPath = "remote"
    /\ spc = "s_done" =>
          \/ SetupFailed
          \/ frame.cmd.type = "Disconnect"
          \/ scmdClosed /\ scmdq = <<>>

C25_IndependentLifecycles ==
    /\ []EndsAreOwn
    /\ [][OneTaskPerStep]_vars

\* The session has disconnected on the user's command and the engine, still
\* connected with its sender open, has answered a ListDir; nothing says
\* Disconnected in the engine's events.
C25_Witness ==
    /\ pc = "done"
    /\ exitPath = "user"
    /\ Last(events).type = "Disconnected"
    /\ spc = "cmd_ok"
    /\ ~scmdClosed
    /\ Len(sevents) = 1
    /\ sevents[1].type = "DirListing"


(***************************************************************************)
(* The event channel of the SFTP tab (async_channel::bounded(256)) between *)
(* the engine and the tab's receive loop.  Every event the engine emits is *)
(* an event_tx.send(e).await: the engine goes on only when the send has    *)
(* returned, which it does when the channel has room (the event is then in *)
(* flight) or when the receiver is gone (Err, which the engine ignores).   *)
(* The UI keeps its command sender and the server fails no request it can  *)
(* grant.  arg holds what the UI is going to do, one of:                   *)
(*   - one Upload of a file of MaxChunks chunks and one byte to "/r/b",    *)
(*     the tab receiving at any pace (more events than the channel holds); *)
(*   - Upload of a file of one byte to "/r/b", then ListDir "/r" (what     *)
(*     upload_selected_local_entry sends), the tab receiving at any pace;  *)
(*   - MaxFlowCmds times ListDir "/r" while the tab receives nothing (more *)
(*     commands than the command channel holds).                           *)
(* The tab may drop its receiver at any time.                              *)
(***************************************************************************)
MaxChunks == 257
MaxFlowCmds == 66

LocalB == <<Root, <<"b">>>>
PathRB == <<"/", "r", "/", "b">>
UploadB == SftpCommand("Upload", PathRB, LocalB, NoPath)
ListR == SftpCommand("ListDir", PathR, NoKey, NoPath)

FlowScenarios ==
    {[plan |-> <<UploadB>>, len |-> MaxChunks * chunk_size + 1, tab |-> "receives"],
     [plan |-> <<UploadB, ListR>>, len |-> 1, tab |-> "receives"],
     [plan |-> [i \in 1..MaxFlowCmds |-> ListR], len |-> 1, tab |-> "stalled"]}

InitFlow ==
    /\ OneInput
    /\ arg \in FlowScenarios
    /\ out = NoArg
    /\ EngineSpawned
    /\ faults = MaxFaults
    /\ remote = (KeyR :> DirEntry) @@ NoFiles
    /\ localfs = (LocalB :> FileEntry("data", arg.len)) @@ NoFiles

\* A send of the engine has not returned yet.
SendPending == sevents # evSeen

\* The events of the pending sends: what sevents has gained (all of it when
\* the engine has started on a new command).
NewEvents ==
    IF Len(sevents) >= Len(evSeen) /\ SubSeq(sevents, 1, Len(evSeen)) = evSeen
    THEN SubSeq(sevents, Len(evSeen) + 1, Len(sevents))
    ELSE sevents

\* Mutant: a send on a full channel returns at once and the event is lost.
SendReturns_DropsWhenFull ==
    /\ SendPending
    /\ evSeen' = sevents
    /\ IF evOpen /\ Len(evq) + Len(NewEvents) <= EventQueueCap
       THEN evq' = evq \o NewEvents /\ evLog' = evLog \o NewEvents
       ELSE UNCHANGED <<evq, evLog>>
    /\ UNCHANGED <<sessionVars, engineVars, evGot, evOpen, pureVars>>

\* event_tx.send(e).await returns
SendReturns ==
    /\ SendPending
    /\ evSeen' = sevents
    /\ IF evOpen
       THEN /\ Len(evq) + Len(NewEvents) <= EventQueueCap
            /\ evq' = evq \o NewEvents
            /\ evLog' = evLog \o NewEvents
       ELSE UNCHANGED <<evq, evLog>>
    /\ UNCHANGED <<sessionVars, engineVars, evGot, evOpen, pureVars>>

\* while let Ok(event) = event_rx.recv().await
UiRecvEvent ==
    /\ arg.tab = "receives"
    /\ evOpen
    /\ evq # <<>>
    /\ evGot' = Append(evGot, Head(evq))
    /\ evq' = Tail(evq)
    /\ UNCHANGED <<sessionVars, engineVars, evLog, evOpen, evSeen, pureVars>>

\* The future that owns event_rx ends (break after Disconnected, or the main
\* loop is gone): the receiver is dropped with what is in flight, and
\* nothing is kept of what the tab had received.
UiCloseEvents ==
    /\ evOpen
    /\ evOpen' = FALSE
    /\ evq' = <<>>
    /\ evGot' = <<>>
    /\ evLog' = <<>>
    /\ UNCHANGED <<sessionVars, engineVars, evSeen, pureVars>>

\* Mutant: the command channel hands out the newest command first.
UiSendFlow_Prepends ==
    /\ SftpReceiverAlive
    /\ scmdSent < Len(arg.plan)
    /\ Len(scmdq) < SftpCmdQueueCap
    /\ scmdq' = <<arg.plan[scmdSent + 1]>> \o scmdq
    /\ scmdSent' = scmdSent + 1
    /\ UNCHANGED <<sshVars, spc, sevents, scmdClosed, remote, localfs, sops,
                   conflict_policy, response, frame, faults>>

\* cmd_tx.send(cmd).await of the next command of the plan.
UiSendFlow ==
    /\ SftpReceiverAlive
    /\ scmdSent < Len(arg.plan)
    /\ Len(scmdq) < SftpCmdQueueCap
    /\ scmdq' = Append(scmdq, arg.plan[scmdSent + 1])
    /\ scmdSent' = scmdSent + 1
    /\ UNCHANGED <<sshVars, spc, sevents, scmdClosed, remote, localfs, sops,
                   conflict_policy, response, frame, faults>>

\* The engine is suspended while a send is pending.
NextFlow ==
    \/ ~SendPending /\ SftpEstablish
    \/ ~SendPending /\ SftpOpenChannel
    \/ ~SendPending /\ SftpRequestSubsystem
    \/ ~SendPending /\ SftpInit
    \/ ~SendPending /\ SftpReportError
    \/ ~SendPending /\ SftpReportDisconnected
    \/ ~SendPending /\ SftpRecv
    \/ ~SendPending /\ CommandOk
    \/ ~SendPending /\ ListDir
    \/ ~SendPending /\ UploadStat
    \/ ~SendPending /\ UploadFileMeta
    \/ ~SendPending /\ UploadFileRead
    \/ ~SendPending /\ UploadFileOpen
    \/ ~SendPending /\ UploadFileWrite
    \/ ~SendPending /\ UploadFileShutdown
    \/ SendReturns
    \/ UiRecvEvent
    \/ UiCloseEvents
    \/ UiSendFlow

SpecFlow == InitFlow /\ [][NextFlow]_vars


(***************************************************************************)
(* C22.  The command and event queues are bounded and lossless: neither    *)
(* holds more than its capacity; while the tab's receiver is open, an      *)
(* engine that finds the event channel full is suspended in its send until *)
(* the tab has received an event, no event is dropped, and the events the  *)
(* channel accepted are exactly those the tab has received followed by     *)
(* those in flight, each once.                                             *)
(***************************************************************************)
QueuesBounded ==
    /\ Len(evq) <= EventQueueCap
    /\ Len(scmdq) <= SftpCmdQueueCap
    /\ Len(cmdq) <= CmdQueueCap

\* Nothing the engine emitted is missing or doubled: what the channel
\* accepted is what was received and what is in flight, and it ends with
\* the events of the running command whose send has returned.
Lossless ==
    evOpen =>
        /\ evLog = evGot \o evq
        /\ Len(evLog) >= Len(evSeen)
        /\ SubSeq(evLog, Len(evLog) - Len(evSeen) + 1, Len(evLog)) = evSeen

\* The commands in flight are the sent ones the engine has not taken, in
\* the order of sending; with a tab that receives nothing, the listings the
\* channel accepted are one for every command taken but the running one.
IsListing(e) == e.type = "DirListing"
CommandsTaken == scmdSent - Len(scmdq)
CommandsLossless ==
    /\ scmdq = SubSeq(arg.plan, CommandsTaken + 1, scmdSent)
    /\ (evOpen /\ arg.tab = "stalled") =>
          LET answered == Len(SelectSeq(evLog, IsListing)) IN
          /\ answered <= CommandsTaken
          /\ CommandsTaken <= answered + 1

\* A send on a full channel with an open receiver is pending.
Suspended == evOpen /\ SendPending /\ Len(evq) = EventQueueCap

\* While suspended the engine does not move and drops nothing; it is the
\* tab that takes the next step.
SuspendedUntilRoom ==
    Suspended =>
        /\ <<spc, sevents, remote, localfs, sops, frame>>' =
              <<spc, sevents, remote, localfs, sops, frame>>
        /\ evSeen' = evSeen
        /\ evOpen' => evLog' = evLog /\ Len(evGot') = Len(evGot) + 1

C22_QueuesBoundedAndLossless ==
    /\ [](QueuesBounded /\ Lossless /\ CommandsLossless)
    /\ [][SuspendedUntilRoom]_vars

\* The engine was suspended on the full channel, the tab then received, and
\* every event of the upload has arrived: TransferComplete is the last one
\* received, after more progress events than the channel holds.
C22_Witness ==
    /\ evOpen
    /\ evq = <<>>
    /\ spc = "s_loop"
    /\ Len(evGot) > EventQueueCap + 2
    /\ Last(evGot).type = "TransferComplete"
    /\ evGot[Len(evGot) - 1].bytes = MaxChunks * chunk_size + 1
    /\ evGot[Len(evGot) - 1].bytes = arg.len
    /\ \A i \in 3..(Len(evGot) - 1) : evGot[i].bytes > evGot[i - 1].bytes

\* The command channel is full and the UI has a command left to send.
CommandQueueFull == Len(scmdq) = SftpCmdQueueCap /\ scmdSent < Len(arg.plan)

\* All the commands of the long plan have been sent and answered.
AllCommandsAnswered ==
    /\ scmdSent > SftpCmdQueueCap
    /\ scmdSent = Len(arg.plan)
    /\ scmdq = <<>>
    /\ spc = "s_loop"
    /\ evOpen
    /\ Len(SelectSeq(evLog, IsListing)) = scmdSent


(***************************************************************************)
(* C23.  Commands are handled in the order of sending, one at a time: the  *)
(* engine takes the oldest command in flight and only when it is handling  *)
(* none; every event it emits belongs to the command it is handling, so    *)
(* the events of a command come before those of the next; a ListDir sent   *)
(* after an Upload lists the directory with the uploaded file complete in  *)
(* it; and the tab receives the events in the order of their emission.     *)
(***************************************************************************)
KeyRB == <<Root, <<"r">>, <<"b">>>>

\* The events a command of a type causes when no request fails ("none" is
\* the setup before the loop, which reports that it succeeded or failed).
CausedEvents(type) ==
    CASE type = "none" -> {"Connected", "Error", "Disconnected"}
      [] type = "Upload" -> {"TransferProgress", "TransferComplete"}
      [] type = "ListDir" -> {"DirListing"}
      [] OTHER -> {}

\* The first command of the plan that causes an event, 0 for the setup.
Cause(e) ==
    IF e.type \in CausedEvents("none") THEN 0
    ELSE CHOOSE k \in 1..(Len(arg.plan) + 1) :
            /\ k <= Len(arg.plan) => e.type \in CausedEvents(arg.plan[k].type)
            /\ \A j \in 1..(k - 1) : e.type \notin CausedEvents(arg.plan[j].type)

\* No event is followed by an event of an earlier command.
InCommandOrder(es) ==
    \A i \in 2..Len(es) : Cause(es[i - 1]) <= Cause(es[i])

\* A step that changes the command channel appends the next command sent or
\* hands the oldest one to an engine that is handling none.
CommandsInSendOrder ==
    scmdq' # scmdq =>
        \/ /\ scmdSent < Len(arg.plan)
           /\ scmdq' = Append(scmdq, arg.plan[scmdSent + 1])
           /\ scmdSent' = scmdSent + 1
        \/ /\ scmdq # <<>>
           /\ spc = "s_loop"
           /\ frame = NoFrame
           /\ ~SendPending
           /\ scmdq' = Tail(scmdq)
           /\ frame'.cmd = Head(scmdq)
           /\ frame'.cmd = arg.plan[CommandsTaken + 1]

\* An event is emitted for the command being handled.
EmittedForRunningCommand ==
    (Len(sevents') > Len(sevents)) =>
        \A i \in (Len(sevents) + 1)..Len(sevents') :
            sevents'[i].type \in CausedEvents(frame.cmd.type)

\* The listing sent after the upload is made when the upload is complete.
ListingAfterUpload ==
    (arg.plan = <<UploadB, ListR>> /\ Len(sevents') > Len(sevents)
         /\ IsListing(Last(sevents'))) =>
        /\ KeyRB \in DOMAIN remote
        /\ remote[KeyRB] = FileEntry("data", arg.len)
        /\ Last(sevents').entries = <<[name |-> <<"b">>, is_dir |-> FALSE]>>
        /\ evOpen => \E i \in DOMAIN evLog : evLog[i] = Complete(<<"b">>)

\* The tab receives the oldest event in flight; the channel takes new ones
\* at its end.
DeliveredInEmissionOrder ==
    evOpen' =>
        /\ evGot' # evGot =>
              /\ evq # <<>>
              /\ evGot' = Append(evGot, Head(evq))
              /\ evq' = Tail(evq)
        /\ evLog' # evLog =>
              /\ evLog' = evLog \o NewEvents
              /\ evq' = evq \o NewEvents

\* The events the channel accepts do not belong to an earlier command than
\* the last event it had accepted, and are in the order of the commands.
AcceptedInCommandOrder ==
    (evOpen' /\ Len(evLog') > Len(evLog)) =>
        InCommandOrder(SubSeq(evLog', IF evLog = <<>> THEN 1 ELSE Len(evLog),
                              Len(evLog')))

C23_CommandsInOrder ==
    /\ [](evOpen /\ evq = <<>> => InCommandOrder(evGot))
    /\ [][/\ CommandsInSendOrder
          /\ AcceptedInCommandOrder
          /\ EmittedForRunningCommand
          /\ ListingAfterUpload
          /\ DeliveredInEmissionOrder]_vars

\* Upload, then ListDir: the tab has received the events of the upload and,
\* after them, the listing with the uploaded file.
C23_Witness ==
    /\ arg.plan = <<UploadB, ListR>>
    /\ evOpen
    /\ evq = <<>>
    /\ spc = "s_loop"
    /\ scmdSent = 2
    /\ scmdq = <<>>
    /\ Len(evGot) = 5
    /\ [i \in 1..5 |-> evGot[i].type] =
          <<"Connected", "TransferProgress", "TransferProgress",
            "TransferComplete", "DirListing">>
    /\ evGot[4] = Complete(<<"b">>)
    /\ evGot[5].entries = <<[name |-> <<"b">>, is_dir |-> FALSE]>>


(***************************************************************************)
(* Upload of one file of every length around the chunk boundaries.  The    *)
(* UI sends Upload of the local file "/b" to "/r/b", which does not exist  *)
(* on the server; a request may fail.                                      *)
(***************************************************************************)
MaxFileChunks == 3

FileLens ==
    {k * chunk_size + d : k \in 0..MaxFileChunks, d \in {0, 1, chunk_size - 1}}

InitChunks ==
    /\ OneInput
    /\ \E len \in FileLens :
          /\ arg = [plan |-> <<UploadB>>, len |-> len, tab |-> "receives"]
          /\ localfs = (LocalB :> FileEntry("data", len)) @@ NoFiles
    /\ out = NoArg
    /\ SftpSpawned
    /\ remote = (KeyR :> DirEntry) @@ NoFiles

NextChunks ==
    \/ SftpLoopStep
    \/ UploadStat
    \/ UploadFileMeta
    \/ UploadFileRead
    \/ UploadFileOpen
    \/ UploadFileWrite
    \/ UploadFileShutdown
    \/ UiSendFlow
    \/ UiSftpDropSenders

SpecChunks == InitChunks /\ [][NextChunks]_vars

(***************************************************************************)
(* C31.  Uploading a file of length L emits TransferProgress(0, L), then   *)
(* after the k-th chunk TransferProgress(min(k * 32768, L), L) for         *)
(* k = 1..ceil(L / 32768), and then one TransferComplete: these are the    *)
(* events of a finished upload, in this order, and at any time the events  *)
(* of the upload are a beginning of them (before an Error, if it failed).  *)
(* For L = 0 they are the first progress event and TransferComplete.       *)
(***************************************************************************)
CeilDiv(a, b) == (a + b - 1) \div b

ExpectedUploadEvents(name, L) ==
    <<Progress(name, 0, L)>>
        \o [k \in 1..CeilDiv(L, chunk_size) |-> Progress(name, Min(k * chunk_size, L), L)]
        \o <<Complete(name)>>

\* The events of the running command but the Error that ends it.
UploadEvents ==
    IF sevents # <<>> /\ Last(sevents).type = "Error"
    THEN SubSeq(sevents, 1, Len(sevents) - 1)
    ELSE sevents

IsPrefix(a, b) == Len(a) <= Len(b) /\ SubSeq(b, 1, Len(a)) = a

UploadHandled == frame.cmd = UploadB \/ (spc = "s_loop" /\ scmdSent = 1 /\ scmdq = <<>>)

\* The upload ended without an error.
UploadSucceeded ==
    \/ spc = "cmd_ok"
    \/ spc = "s_loop" /\ sevents # <<>> /\ Last(sevents).type # "Error"

ChunkProgress ==
    UploadHandled =>
        LET expected == ExpectedUploadEvents(<<"b">>, arg.len) IN
        /\ IsPrefix(UploadEvents, expected)
        /\ UploadSucceeded = (UploadEvents = expected)
        /\ \A i \in DOMAIN UploadEvents :
              UploadEvents[i].type = "TransferProgress" =>
                  /\ UploadEvents[i].bytes <= UploadEvents[i].total
                  /\ i > 1 => UploadEvents[i].bytes > UploadEvents[i - 1].bytes
        /\ (arg.len = 0 /\ UploadSucceeded) =>
              sevents = <<Progress(<<"b">>, 0, 0), Complete(<<"b">>)>>

C31_UploadProgressByChunk == ChunkProgress

\* A file of MaxFileChunks chunks and one byte is up: the last progress
\* event before TransferComplete carries its length.
C31_Witness ==
    /\ spc = "cmd_ok"
    /\ frame.cmd = UploadB
    /\ arg.len = MaxFileChunks * chunk_size + 1
    /\ Len(sevents) = MaxFileChunks + 3
    /\ sevents[Len(sevents) - 1] = Progress(<<"b">>, arg.len, arg.len)
    /\ sevents[Len(sevents) - 2].bytes = MaxFileChunks * chunk_size
    /\ Last(sevents) = Complete(<<"b">>)
    /\ remote[KeyRB] = FileEntry("data", arg.len)


(***************************************************************************)
(* Two enabled tunnels of the profile, on the same local address or on two *)
(* addresses, each of which another process may hold: the session starts   *)
(* and its listeners bind, accept and fail; the UI sends nothing.          *)
(***************************************************************************)
InitShapes ==
    /\ \E a \in Addrs :
          profile = [auth_method |-> "Both", key_pair_id |-> "Some",
                     tunnels |-> <<[id |-> "t1", addr |-> "a1", enabled |-> TRUE],
                                   [id |-> "t2", addr |-> a, enabled |-> TRUE]>>]
    /\ password = "Some"
    /\ extBound \in SUBSET Addrs
    /\ serverKey = "Ed25519"
    /\ Spawned
    /\ NoCall
    /\ SftpQuiet

NextShapes ==
    \/ SetupStep
    \/ ListenerStep
    \/ ConnStep

SpecShapes == InitShapes /\ [][NextShapes]_vars

(***************************************************************************)
(* C32.  The events of one tunnel start have one of two shapes.  After a   *)
(* failed bind: one TunnelFailed(id) and nothing else, and no connection   *)
(* was accepted.  After a bind that succeeded: one TunnelEstablished(id),  *)
(* followed by at most one TunnelFailed(id), which is sent when accept     *)
(* failed.  A listener that has sent TunnelFailed has stopped: it sends    *)
(* nothing more and accepts nothing more.                                  *)
(***************************************************************************)
SentTypes(l) == [k \in DOMAIN l.sent |-> l.sent[k].type]

AcceptedBy(i) == {c \in DOMAIN conns : conns[c].tunnel = i}

TunnelEventShape(i) ==
    LET l == listeners[i] IN
    /\ \A k \in DOMAIN l.sent : l.sent[k].id = l.id
    /\ CASE l.pc \in {"bind", "emit_est"} -> l.sent = <<>> /\ AcceptedBy(i) = {}
         [] l.pc = "accept" -> SentTypes(l) = <<"TunnelEstablished">>
         [] l.pc = "emit_fail" /\ l.err = "bind" -> l.sent = <<>> /\ AcceptedBy(i) = {}
         [] l.pc = "emit_fail" /\ l.err = "accept" ->
                SentTypes(l) = <<"TunnelEstablished">>
         [] l.pc = "stopped" /\ l.err = "bind" ->
                /\ SentTypes(l) = <<"TunnelFailed">>
                /\ AcceptedBy(i) = {}
         [] l.pc = "stopped" /\ l.err = "accept" ->
                SentTypes(l) = <<"TunnelEstablished", "TunnelFailed">>
         [] OTHER -> FALSE

\* A stopped listener stays as it is, and a connection is only accepted by
\* a listener in its accept loop.
StoppedListenerIsQuiet ==
    /\ \A i \in DOMAIN listeners :
          listeners[i].pc = "stopped" =>
              /\ listeners'[i] = listeners[i]
              /\ {c \in DOMAIN conns' : conns'[c].tunnel = i} = AcceptedBy(i)
    /\ \A c \in DOMAIN conns' :
          c \notin DOMAIN conns => listeners[conns'[c].tunnel].pc = "accept"

C32_TunnelEventShapes ==
    /\ [](\A i \in DOMAIN listeners : TunnelEventShape(i))
    /\ [][StoppedListenerIsQuiet]_vars

\* One start failed to bind and has stopped; another was established,
\* accepted a connection, then failed in accept and has stopped.
C32_Witness ==
    \E i, j \in DOMAIN listeners :
        /\ listeners[i].pc = "stopped"
        /\ listeners[i].err = "bind"
        /\ SentTypes(listeners[i]) = <<"TunnelFailed">>
        /\ listeners[j].pc = "stopped"
        /\ listeners[j].err = "accept"
        /\ SentTypes(listeners[j]) = <<"TunnelEstablished", "TunnelFailed">>
        /\ AcceptedBy(j) # {}


(***************************************************************************)
(* C33.  A failed channel call of SendData (data) or Resize                *)
(* (window_change) ends the session: the main loop is left in that step    *)
(* with a Connection error, no command is taken from the queue afterwards, *)
(* no further call is made on the channel or the transport (no eof, no     *)
(* disconnect), and the task sends Error and then                          *)
(* Disconnected(Some(reason)) with the text of the Connection error.       *)
(***************************************************************************)
WriteCalls == {"data", "window_change"}

FailedWrite(c) == c.call \in WriteCalls /\ c.ret = "error"

WriteFailureLeavesLoop ==
    (Len(wire') > Len(wire) /\ FailedWrite(Last(wire'))) =>
        /\ pc = "main"
        /\ cmdq # <<>>
        /\ Head(cmdq).type = (IF Last(wire').call = "data" THEN "SendData" ELSE "Resize")
        /\ pc' = "report_error"
        /\ exitPath' = "error"
        /\ result' = AppError("Connection", "russh error")

AfterWriteFailure ==
    (\E k \in DOMAIN wire : FailedWrite(wire[k])) =>
        /\ FailedWrite(Last(wire))
        /\ \A k \in 1..(Len(wire) - 1) : ~FailedWrite(wire[k])
        /\ pc \in {"report_error", "report_disc", "done"}
        /\ exitPath = "error"
        /\ result.kind = "Connection"
        /\ pc = "done" => EndsWithErrorReport(to_string(result))

NoCommandAfterWriteFailure ==
    (wire # <<>> /\ FailedWrite(Last(wire))) =>
        /\ wire' = wire
        /\ Len(cmdq') >= Len(cmdq)
        /\ Len(events') >= Len(events)
        /\ \A k \in DOMAIN events : events'[k] = events[k]

C33_WriteFailureIsFatal ==
    /\ []AfterWriteFailure
    /\ [][WriteFailureLeavesLoop /\ NoCommandAfterWriteFailure]_vars

\* A Resize failed with a command left in the queue; the task has reported
\* the error and ended, the command is still there.
C33_Witness ==
    /\ pc = "done"
    /\ Last(wire) = Call("window_change", "error")
    /\ cmdq # <<>>
    /\ Head(cmdq).type = "Disconnect"
    /\ CallsOf("eof") = {}
    /\ CallsOf("disconnect") = {}
    /\ EndsWithErrorReport(to_string(AppError("Connection", "russh error")))


(***************************************************************************)
(* C34.  A session task that has ended has sent exactly one Disconnected   *)
(* event, as its last event, and sends nothing afterwards; it sends        *)
(* Disconnected in no other step than its last.  The same holds for the    *)
(* SFTP engine task: the step that sends Disconnected is its last step,    *)
(* and the engine sends nothing afterwards.                                *)
(***************************************************************************)
SessionDisconnects == EventsOf("Disconnected")

SessionEndsWithOneDisconnected ==
    /\ pc = "done" =>
          /\ events # <<>>
          /\ SessionDisconnects = {Len(events)}
    /\ pc # "done" => SessionDisconnects = {}

SessionSilentAfterEnd == pc = "done" => pc' = "done" /\ events' = events

EngineDisconnects == {k \in DOMAIN sevents : sevents[k].type = "Disconnected"}

EngineEndsWithOneDisconnected ==
    /\ spc = "s_done" =>
          /\ sevents # <<>>
          /\ EngineDisconnects = {Len(sevents)}
    /\ spc # "s_done" => EngineDisconnects = {}

\* sevents starts again with every command: no command is received after
\* the end, so the events of the last command are the last of the task.
EngineSilentAfterEnd ==
    /\ spc = "s_done" => spc' = "s_done" /\ sevents' = sevents
    /\ (spc # "s_done" /\ spc' = "s_done") =>
          /\ sevents' # <<>>
          /\ Last(sevents').type = "Disconnected"

C34_OneFinalDisconnected ==
    /\ [](SessionEndsWithOneDisconnected /\ EngineEndsWithOneDisconnected)
    /\ [][SessionSilentAfterEnd /\ EngineSilentAfterEnd]_vars

\* Both tasks have ended, the session after an error in its main loop, the
\* engine by a Disconnect command after it answered a ListDir.
C34_Witness ==
    /\ pc = "done"
    /\ exitPath = "error"
    /\ EventsOf("Connected") # {}
    /\ EventsOf("Error") = {Len(events) - 1}
    /\ SessionDisconnects = {Len(events)}
    /\ spc = "s_done"
    /\ scmdSent = 2
    /\ sevents = <<SftpEvent("Disconnected", "none", NoPath)>>


(***************************************************************************)
(* C35.  When the response channel of a TransferConflict is dropped        *)
(* without a response, the transfer is aborted: from the question to the   *)
(* end of the command neither file system changes, no decision is acted on *)
(* or remembered, the command's events end with the TransferConflict       *)
(* followed by its only Error, "Conflict resolution canceled" for the      *)
(* conflicting path, and the engine is back in its loop.                   *)
(***************************************************************************)
CanceledTag == "Conflict resolution canceled"

Canceled == spc = "cmd_err" /\ frame.err.tag = CanceledTag

\* While the engine waits for the response nothing but the response moves.
WaitingChangesNothing ==
    spc = "ask_wait" =>
        /\ UNCHANGED <<remote, localfs, sevents>>
        /\ spc' # spc =>
              IF response.state = "dropped"
              THEN /\ spc' = "cmd_err"
                   /\ frame'.err = [tag |-> CanceledTag, path |-> frame.ask.path]
                   /\ conflict_policy = "None"
                   /\ UNCHANGED <<sops, conflict_policy>>
              ELSE /\ response.state = "answered"
                   /\ spc' = frame.ask.ret

CancelEndsCommand ==
    Canceled =>
        /\ UNCHANGED <<remote, localfs, sops>>
        /\ spc' # spc =>
              /\ spc' = "s_loop"
              /\ sevents' = Append(sevents, SftpEvent("Error", CanceledTag, frame.err.path))
              /\ conflict_policy' = "None"

CanceledEvents ==
    (Canceled \/ (spc = "s_loop" /\ sevents # <<>> /\ Last(sevents).tag = CanceledTag)) =>
        LET n == IF Canceled THEN Len(sevents) ELSE Len(sevents) - 1 IN
        /\ n >= 1
        /\ sevents[n].type = "TransferConflict"
        /\ Canceled => sevents[n].path = frame.err.path
        /\ ~Canceled => sevents[n].path = Last(sevents).path
        /\ \A k \in DOMAIN sevents : sevents[k].type = "Error" => k = n + 1
        /\ conflict_policy = "None"
        /\ \A k \in DOMAIN sops : sops[k].how \notin {"remembered", "asked_all"}

C35_CanceledConflictAborts ==
    /\ []CanceledEvents
    /\ [][WaitingChangesNothing /\ CancelEndsCommand]_vars

\* A transfer was canceled at a conflict after it had transferred
\* something; the engine is in its loop with the next command waiting.
C35_Witness ==
    /\ spc = "s_loop"
    /\ sevents # <<>>
    /\ Last(sevents).tag = CanceledTag
    /\ \E k \in DOMAIN sevents : sevents[k].type = "TransferComplete"
    /\ scmdq # <<>>


(***************************************************************************)
(* Progress of the engine.  The UI sends up to MaxSftpCmds commands out of *)
(* Upload of the file "/b" onto the existing file "/r/b" (a conflict),     *)
(* ListDir "/r", Remove of the missing "/r/u" and Disconnect, answers a    *)
(* TransferConflict or drops its                                           *)
(* response channel, and may drop its command sender; a request may fail.  *)
(* Sends on the event channel return (the tab keeps receiving).  In        *)
(* SpecLive the engine task keeps being scheduled and a pending            *)
(* TransferConflict is eventually answered or dropped.                     *)
(***************************************************************************)
LiveCommands ==
    {UploadB, ListR,
     SftpCommand("Remove", PathRU, NoKey, NoPath),
     SftpCommand("Disconnect", NoPath, NoKey, NoPath)}

UiSendLive == UiSftpSendOf(LiveCommands)

InitLive ==
    /\ OneProfile
    /\ SftpSpawned
    /\ remote = (KeyR :> DirEntry) @@ (KeyRB :> FileEntry("old", 1)) @@ NoFiles
    /\ localfs = (LocalB :> FileEntry("data", 1)) @@ NoFiles

EngineLive ==
    \/ SftpLoopStep
    \/ ListDir
    \/ UploadStat
    \/ UploadFileMeta
    \/ UploadFileDecided
    \/ UploadFileRead
    \/ UploadFileOpen
    \/ UploadFileWrite
    \/ UploadFileShutdown
    \/ RemoveMeta
    \/ RemoveFile
    \/ RemoveAnyFile
    \/ RemoveAnyDir
    \/ AskRecv

NextLive ==
    \/ EngineLive
    \/ UiRespond
    \/ UiDropResponse
    \/ UiSendLive
    \/ UiSftpDropSenders

SpecLive ==
    /\ InitLive
    /\ [][NextLive]_vars
    /\ WF_vars(EngineLive)
    /\ WF_vars(UiRespond \/ UiDropResponse)

\* The k-th command sent has been taken from the channel and its handler is over.
Processed(k) ==
    /\ CommandsTaken >= k
    /\ CommandsTaken = k => spc \in {"s_loop", "s_done"}

DisconnectQueued == \E i \in DOMAIN scmdq : scmdq[i].type = "Disconnect"

EndedWithDisconnected ==
    /\ spc = "s_done"
    /\ sevents # <<>>
    /\ Last(sevents).type = "Disconnected"

\* While ask_transfer_conflict waits on response_rx nothing is received
\* from the command channel: the engine stays in the wait or leaves it through
\* the receive of the response, and the queue only grows.
NoCommandWhileWaiting ==
    spc = "ask_wait" =>
        /\ Len(scmdq') >= Len(scmdq)
        /\ SubSeq(scmdq', 1, Len(scmdq)) = scmdq
        /\ spc' # "ask_wait" => response.state \in {"answered", "dropped"}
        /\ frame'.cmd = frame.cmd

\* The engine ends with commands left in the channel only after a Disconnect
\* command or a failed setup.
LeftUnprocessed == spc = "s_done" /\ scmdq # <<>>

OnlyDisconnectOrSetupLeavesCommands ==
    LeftUnprocessed => frame.cmd.type = "Disconnect" \/ frame.cmd = NoCommand

\* C36 as stated: every command sent is eventually processed, a Disconnect
\* command eventually yields Disconnected, and no command is processed while
\* a transfer waits for its conflict response.  It is refuted: a command
\* queued behind a Disconnect, or sent to an engine whose setup fails, is
\* never processed.
C36_EveryCommandProcessed ==
    /\ \A k \in 1..MaxSftpCmds : (scmdSent >= k) ~> Processed(k)
    /\ DisconnectQueued ~> EndedWithDisconnected
    /\ [][NoCommandWhileWaiting]_vars

\* C36 amended: every command sent is eventually processed unless the engine
\* ends first, which it does with commands left only after a Disconnect
\* command or a failed setup; a Disconnect command eventually yields
\* Disconnected; no command is taken while a transfer waits for its conflict
\* response.
C36_EngineProgress ==
    /\ \A k \in 1..MaxSftpCmds : (scmdSent >= k) ~> (Processed(k) \/ spc = "s_done")
    /\ []OnlyDisconnectOrSetupLeavesCommands
    /\ DisconnectQueued ~> EndedWithDisconnected
    /\ [][NoCommandWhileWaiting]_vars

\* An Upload whose conflict was answered with Replace wrote the file, and
\* the Disconnect sent after it ended the engine.
C36_Witness ==
    /\ EndedWithDisconnected
    /\ frame.cmd.type = "Disconnect"
    /\ scmdSent = MaxSftpCmds
    /\ scmdq = <<>>
    /\ remote[KeyRB] = FileEntry("data", 1)

(***************************************************************************)
(* C37.  A recursive Upload or Download that fails part-way stops there:   *)
(* the step that fails and the report of the failure change neither file   *)
(* system (what was created or written before stays, nothing is undone,    *)
(* no further entry is transferred); the command's events get exactly one  *)
(* Error, as their last event, and no TransferComplete of the top-level    *)
(* directory; the engine is back in its loop, where neither file system    *)
(* changes until the next command is received.                             *)
(***************************************************************************)
IsTransfer(cmd) == cmd.type \in {"Upload", "Download"}

\* The source of the transfer is a directory.
IsRecursive(cmd) ==
    \/ cmd.type = "Upload" /\ frame.at.localfs[cmd.local].is_dir
    \/ cmd.type = "Download" /\ frame.at.remote[Resolve(cmd.path)].is_dir

TransferFailing == spc = "cmd_err" /\ IsTransfer(frame.cmd) /\ IsRecursive(frame.cmd)

ErrorsIn(es) == {i \in DOMAIN es : es[i].type = "Error"}
TopCompleteIn(es, cmd) ==
    \E i \in DOMAIN es : es[i] = Complete(remote_basename(cmd.path))

\* The step on which the transfer fails undoes nothing.
FailingStepKeepsFiles ==
    (spc # "cmd_err" /\ spc' = "cmd_err") => UNCHANGED <<remote, localfs>>

\* The report of the failure: one Error, the first of the command, no
\* TransferComplete of the whole transfer before it, nothing transferred
\* and nothing undone, back to the loop.
FailureReportedOnce ==
    TransferFailing =>
        /\ ErrorsIn(sevents) = {}
        /\ ~TopCompleteIn(sevents, frame.cmd)
        /\ UNCHANGED <<remote, localfs>>
        /\ \/ UNCHANGED <<spc, frame, sevents>>
           \/ /\ sevents' = Append(sevents,
                                   SftpEvent("Error", frame.err.tag, frame.err.path))
              /\ spc' = "s_loop"

\* Nothing is transferred, undone or reported between two commands.
LoopKeepsFiles ==
    spc = "s_loop" =>
        /\ UNCHANGED <<remote, localfs>>
        /\ spc' = "s_loop" => sevents' = sevents

\* A command that has Error among its events has it once, as the last; only
\* the Disconnected of the ending engine may follow it.
ErrorIsLast ==
    ErrorsIn(sevents) # {} =>
        \/ /\ ErrorsIn(sevents) = {Len(sevents)}
           /\ spc \in {"s_loop", "s_report_disc"}
        \/ /\ ErrorsIn(sevents) = {Len(sevents) - 1}
           /\ Last(sevents).type = "Disconnected"
           /\ spc = "s_done"

C37_FailedTransferStops ==
    /\ []ErrorIsLast
    /\ [][FailingStepKeepsFiles /\ FailureReportedOnce /\ LoopKeepsFiles]_vars

\* Upload of the local directory "/d" onto "/r/d" has replaced "/r/d/f" by the
\* uploaded file and then failed: "/r/d/f" stays as written, the entry "s"
\* is untouched, the events end with the Error.
C37_Witness ==
    /\ spc = "s_loop"
    /\ sevents # <<>>
    /\ Last(sevents).type = "Error"
    /\ \E i \in DOMAIN sevents : sevents[i] = Complete(<<"f">>)
    /\ remote[Append(RemoteD, <<"f">>)] = FileEntry("new", 1)
    /\ remote[Append(RemoteD, <<"s">>)] = FileEntry("old", 1)

(***************************************************************************)
(* C38.  Conflicts of a recursive transfer.                                *)
(***************************************************************************)
\* The sites where a decision about a directory of the transfer, and about a
\* file of the transfer, is acted on.
DirSites == {"up_root_decided", "up_dir_decided", "dn_root_decided", "dn_dir_decided"}
FileSites == {"uf_decided", "df_decided"}

\* The file system a transfer writes to.
Destination(cmd) == IF cmd.type = "Upload" THEN remote ELSE localfs

\* The targets of the directories of the running transfer: the root and
\* every directory beneath the source, moved under the destination.
DirTargets ==
    IF frame.cmd.type = "Upload"
    THEN {Moved(l, frame.cmd.local, Resolve(frame.cmd.path)) :
             l \in {k \in DOMAIN frame.at.localfs :
                       IsUnder(k, frame.cmd.local) /\ frame.at.localfs[k].is_dir}}
    ELSE IF frame.cmd.type = "Download"
    THEN LET from == Resolve(frame.cmd.path)
             local_root ==
                 IF IsDirAt(frame.at.localfs, frame.cmd.local)
                 THEN Append(frame.cmd.local, remote_basename(frame.cmd.path))
                 ELSE frame.cmd.local
         IN {Moved(r, from, local_root) :
                r \in {k \in DOMAIN frame.at.remote :
                          IsUnder(k, from) /\ frame.at.remote[k].is_dir}}
    ELSE {}

\* The step emits a TransferConflict.
ConflictEmitted ==
    /\ Len(sevents') = Len(sevents) + 1
    /\ Last(sevents').type = "TransferConflict"

\* A TransferConflict is about an entry that exists at the target, tells
\* whether it is a directory, and when the target is that of a directory of
\* the transfer the entry is none.
ConflictOnlyOnExisting ==
    ConflictEmitted =>
        LET key == frame'.ask.key
            fs == Destination(frame.cmd)
        IN /\ spc' = "ask_wait"
           /\ key \in DOMAIN fs
           /\ Last(sevents').is_dir = fs[key].is_dir
           /\ Last(sevents').tag = frame.cmd.type
           /\ frame'.ask.ret \in DirSites \cup FileSites
           /\ frame'.ask.ret \in DirSites =>
                 /\ key \in DirTargets
                 /\ ~fs[key].is_dir

\* The directory of the transfer in hand exists as a directory at its
\* target: the step emits nothing, asks nothing and goes on to create or
\* enter it.
MergingUpload ==
    /\ spc \in {"up_root_meta", "up_dir_meta"}
    /\ spc' # spc
    /\ IsDirAt(remote, Resolve(IF spc = "up_root_meta"
                               THEN frame.cmd.path ELSE frame.xfer.target))
MergingDownload ==
    \/ /\ spc = "dn_stat"
       /\ spc' \notin {spc, "cmd_err"}
       /\ IsDirAt(remote, Resolve(frame.cmd.path))
       /\ IsDirAt(localfs, local_target(frame.cmd.local, frame.cmd.path))
    \/ /\ spc = "dn_walk"
       /\ spc' # spc
       /\ frame.xfer.entries # <<>>
       /\ Head(frame.xfer.entries).is_dir
       /\ IsDirAt(localfs, Head(frame.xfer.entries).local)

ExistingDirectoryIsMerged ==
    (MergingUpload \/ MergingDownload) =>
        /\ sevents' = sevents
        /\ response' = response
        /\ spc' \notin DirSites \cup {"ask_wait"}
        /\ UNCHANGED <<remote, localfs>>

\* The directories a step deletes or replaces by a file.
DirsDeleted(fs, after) ==
    {k \in DOMAIN fs : fs[k].is_dir /\ (k \notin DOMAIN after \/ ~after[k].is_dir)}

\* A transfer deletes a directory only to replace what is at the target of
\* one of its files, never the target of one of its directories.
DirectoryTargetNeverDeleted ==
    IsTransfer(frame.cmd) =>
        LET gone == DirsDeleted(remote, remote') \cup DirsDeleted(localfs, localfs') IN
        gone # {} =>
            /\ gone \cap DirTargets = {}
            /\ frame.ask.ret \in FileSites
            /\ frame.ask.decision = "ReplaceWithIncoming"
            /\ \A k \in gone : IsUnder(k, frame.ask.key)

\* The target of a directory in hand is one of DirTargets.
DirTargetsAreTargets ==
    /\ spc \in {"up_dir_meta", "up_dir_decided", "up_dir_ensure"} =>
          Resolve(frame.xfer.target) \in DirTargets
    /\ spc \in {"up_root_meta", "up_root_decided", "up_root_ensure"} =>
          Resolve(frame.cmd.path) \in DirTargets
    /\ spc \in {"dn_root_decided", "dn_root_remove", "dn_root_mkdir",
                "dn_dir_decided", "dn_dir_remove", "dn_dir_mkdir"} =>
          frame.xfer.entry \in DirTargets

\* The decision about a file of the transfer is acted on after its
\* TransferConflict was answered.
FileDecisionWasAsked ==
    (spc' \in FileSites /\ spc' # spc) => spc = "ask_wait"

\* ... or it is the apply-to-all decision given earlier in the command, and
\* then nothing is emitted.
FileDecisionAskedOrRemembered ==
    (spc' \in FileSites /\ spc' # spc) =>
        \/ spc = "ask_wait"
        \/ /\ conflict_policy # "None"
           /\ frame'.ask.decision = conflict_policy
           /\ frame'.ask.key \in DOMAIN Destination(frame.cmd)
           /\ sevents' = sevents

\* A file of the transfer whose target exists: the step asks, or acts on
\* the apply-to-all decision.
FileOntoExisting ==
    \/ /\ spc = "uf_meta"
       /\ spc' \notin {spc, "uf_read"}
    \/ /\ spc = "dn_stat"
       /\ spc' \notin {spc, "cmd_err"}
       /\ ~IsDirAt(remote, Resolve(frame.cmd.path))
       /\ local_target(frame.cmd.local, frame.cmd.path) \in DOMAIN localfs
    \/ /\ spc = "dn_walk"
       /\ spc' # spc
       /\ frame.xfer.entries # <<>>
       /\ ~Head(frame.xfer.entries).is_dir
       /\ Head(frame.xfer.entries).local \in DOMAIN localfs

FileConflictAlwaysAsked == FileOntoExisting => ConflictEmitted
FileConflictAskedOrRemembered ==
    FileOntoExisting =>
        IF conflict_policy = "None"
        THEN ConflictEmitted /\ frame'.ask.ret \in FileSites
        ELSE spc' \in FileSites /\ sevents' = sevents

\* C38 as stated: an existing directory at the target of a directory is
\* merged, without a TransferConflict and without being deleted; a
\* TransferConflict for the target of a directory is emitted only when a
\* non-directory is there; for a file a TransferConflict is emitted whenever
\* an entry exists at its target.  The last part is refuted: with an
\* apply-to-all decision in force nothing is emitted.
C38_ConflictsByKind ==
    /\ []DirTargetsAreTargets
    /\ [][/\ ConflictOnlyOnExisting
          /\ ExistingDirectoryIsMerged
          /\ DirectoryTargetNeverDeleted
          /\ FileConflictAlwaysAsked
          /\ FileDecisionWasAsked]_vars

\* C38 amended: as above, but for a file whose target exists the
\* TransferConflict is emitted when no apply-to-all decision is in force,
\* and otherwise that decision is acted on without an event.
C38_ConflictsByKindUnlessRemembered ==
    /\ []DirTargetsAreTargets
    /\ [][/\ ConflictOnlyOnExisting
          /\ ExistingDirectoryIsMerged
          /\ DirectoryTargetNeverDeleted
          /\ FileConflictAskedOrRemembered
          /\ FileDecisionAskedOrRemembered]_vars

\* Upload of "/d" onto "/r/d": the directory "/r/d" was merged without a
\* question, the directory "/r/d/f" in the way of the file "f" was asked
\* about, deleted and replaced by the file; the file "/r/d/s" in the way of
\* the directory "s" was decided by the same apply-to-all answer.
C38_Witness ==
    /\ frame.cmd = SftpCommand("Upload", PathRD, LocalD, NoPath)
    /\ IsDirAt(remote, RemoteD)
    /\ IsFileAt(remote, Append(RemoteD, <<"f">>))
    /\ remote[Append(RemoteD, <<"f">>)] = FileEntry("new", 1)
    /\ \E i \in DOMAIN sevents :
          /\ sevents[i].type = "TransferConflict"
          /\ sevents[i].is_dir
    /\ \A i \in DOMAIN sevents :
          sevents[i].type = "TransferConflict" => sevents[i].path # PathRD
    /\ \E i \in DOMAIN sops : sops[i].how = "remembered"

(***************************************************************************)
(* Upload of the file "/b" into a destination written with a trailing '/': *)
(* "/r/", "/r//", "r/", "/" and "//", on a server that has "/r".           *)
(***************************************************************************)
IntoPaths ==
    {<<"/", "r", "/">>, <<"/", "r", "/", "/">>, <<"r", "/">>, <<"/">>, <<"/", "/">>}
IntoLens == {0, 1, chunk_size + 1}

InitInto ==
    /\ OneInput
    /\ \E dest \in IntoPaths, len \in IntoLens :
          /\ arg = [plan |-> <<SftpCommand("Upload", dest, LocalB, NoPath)>>,
                    len |-> len, tab |-> "receives"]
          /\ localfs = (LocalB :> FileEntry("data", len)) @@ NoFiles
    /\ out = NoArg
    /\ SftpSpawned
    /\ remote = (KeyR :> DirEntry) @@ NoFiles

SpecInto == InitInto /\ [][NextChunks]_vars

\* upload_file has been called for the file of an Upload whose destination
\* ends with '/'.
UploadingInto ==
    /\ frame.cmd.type = "Upload"
    /\ ends_with(frame.cmd.path, Slash)
    /\ frame.xfer.local_file = frame.cmd.local
    /\ frame.xfer.local_file # NoKey

\* The destination directory, one separator, the local file name.
IntoTarget(dest, local) ==
    trim_end_matches(dest, Slash) \o <<Slash>> \o file_name(local, Unknown)

\* C39: the file of an Upload whose destination ends with '/' is written
\* to the destination directory joined with the local file name by exactly
\* one separator, absolute when the destination is: "/" with the name n
\* gives "/n".
C39_FileIntoDirectory ==
    UploadingInto =>
        /\ frame.xfer.remote_file = IntoTarget(frame.cmd.path, frame.cmd.local)
        /\ starts_with(frame.cmd.path, Slash) => starts_with(frame.xfer.remote_file, Slash)
        /\ spc = "cmd_ok" =>
              IsFileAt(remote, Resolve(IntoTarget(frame.cmd.path, frame.cmd.local)))

\* What holds: the same for a destination that names more than the root.
IntoBelowRoot ==
    (UploadingInto /\ trim_end_matches(frame.cmd.path, Slash) # <<>>) =>
        /\ frame.xfer.remote_file = IntoTarget(frame.cmd.path, frame.cmd.local)
        /\ starts_with(frame.cmd.path, Slash) => starts_with(frame.xfer.remote_file, Slash)
        /\ spc = "cmd_ok" =>
              IsFileAt(remote, Resolve(IntoTarget(frame.cmd.path, frame.cmd.local)))

\* Upload of "/b" into "/" has written "b" in the directory the server
\* resolves relative paths in, and nothing at "/b".
IntoRootWritesRelative ==
    /\ spc = "cmd_ok"
    /\ frame.cmd = SftpCommand("Upload", <<"/">>, LocalB, NoPath)
    /\ frame.xfer.remote_file = <<"b">>
    /\ IsFileAt(remote, <<Cwd, <<"b">>>>)
    /\ <<Root, <<"b">>>> \notin DOMAIN remote

(***************************************************************************)
(* One Remove command on any tree, under a scheduler that keeps running    *)
(* the engine task while it is inside remove_remote_entry_recursive (every *)
(* request returns).                                                       *)
(***************************************************************************)
InitRemoveOnce ==
    /\ OneInput
    /\ \E cmd \in RemoveCommands : arg = [plan |-> <<cmd>>, len |-> 0, tab |-> "receives"]
    /\ out = NoArg
    /\ SftpSpawned
    /\ remote \in Trees(RemoveKeys)
    /\ localfs = NoFiles

NextRemoveOnce ==
    \/ SftpLoopStep
    \/ RemoveStep
    \/ UiSendFlow
    \/ UiSftpDropSenders

SpecRemoveFair == InitRemoveOnce /\ [][NextRemoveOnce]_vars /\ WF_vars(RemoveStep)

InRemove == spc \in {"rm_meta", "rm_readdir", "rm_dir", "rm_file", "rm_any_file", "rm_any_dir"}

\* What removing the entry at key takes in pushes: two for every directory
\* at or beneath it, one for every file, one for an entry that is not there.
PushWeight(key) ==
    IF key \notin DOMAIN remote THEN 1
    ELSE LET under == {c \in DOMAIN remote : IsUnder(c, key)} IN
         2 * Cardinality({c \in under : remote[c].is_dir})
         + Cardinality({c \in under : ~remote[c].is_dir})

\* The pushes the entries of the stack can still cause: none for a visited
\* entry, all but its own for one not yet visited.
RECURSIVE PushesOwed(_)
PushesOwed(stack) ==
    IF stack = <<>> THEN 0
    ELSE (IF Top(stack).visited THEN 0 ELSE PushWeight(Resolve(Top(stack).path)) - 1)
         + PushesOwed(Pop(stack))

\* ... and those of the listing in hand.
PushesLeft ==
    PushesOwed(frame.rm.stack)
    + (IF spc = "rm_readdir" THEN PushWeight(Resolve(frame.rm.current)) - 2 ELSE 0)

\* The entries a step pushes: what the stack holds beyond what it kept.
Kept == IF spc = "rm_meta" THEN Pop(frame.rm.stack) ELSE frame.rm.stack
Pushed == SubSeq(frame'.rm.stack, Len(Kept) + 1, Len(frame'.rm.stack))

\* A step inside the routine keeps the stack beneath what it pops, pushes
\* either the popped directory as visited or the entries of the listed
\* directory, each once and not visited, and uses up as many of the pushes
\* left as it makes.
PushesAreBudgeted ==
    (InRemove /\ InRemove' /\ <<spc, frame>>' # <<spc, frame>>) =>
        /\ Len(frame'.rm.stack) >= Len(Kept)
        /\ SubSeq(frame'.rm.stack, 1, Len(Kept)) = Kept
        /\ PushesLeft' + Len(Pushed) <= PushesLeft
        /\ spc = "rm_meta" /\ Pushed # <<>> =>
              /\ Pushed = <<[path |-> Top(frame.rm.stack).path, visited |-> TRUE]>>
              /\ ~Top(frame.rm.stack).visited
              /\ IsDirAt(remote, Resolve(Top(frame.rm.stack).path))
              /\ spc' = "rm_readdir"
        /\ spc = "rm_readdir" /\ spc' # spc =>
              /\ {Resolve(Pushed[i].path) : i \in DOMAIN Pushed}
                    = Children(remote, Resolve(frame.rm.current))
              /\ Len(Pushed) = Cardinality(Children(remote, Resolve(frame.rm.current)))
              /\ \A i \in DOMAIN Pushed : ~Pushed[i].visited
        /\ spc \notin {"rm_meta", "rm_readdir"} => Pushed = <<>>

\* With the push of the call itself, the pushes of one call are at most
\* two for each directory and one for each file of the tree it found; no
\* entry is on the stack twice.
StackIsBounded ==
    InRemove =>
        /\ PushesLeft >= 0
        /\ frame.cmd.type = "Remove" =>
              PushesLeft < 2 * Cardinality(DOMAIN frame.at.remote) + 1
        /\ \A i, j \in DOMAIN frame.rm.stack :
              Resolve(frame.rm.stack[i].path) = Resolve(frame.rm.stack[j].path) => i = j

\* The routine returns Err(..): the failing step removes nothing and puts
\* nothing back; afterwards what was removed stays removed, nothing else
\* has appeared, and a directory it was called on is still there.
RemoveFailed == spc = "cmd_err" /\ frame.cmd.type = "Remove"
ErrorReturnKeepsRest ==
    /\ (InRemove /\ spc' = "cmd_err") => remote' = remote
    /\ RemoveFailed => remote' = remote
TargetSurvivesError ==
    RemoveFailed =>
        LET target == Resolve(frame.cmd.path) IN
        /\ DOMAIN remote \subseteq DOMAIN frame.at.remote
        /\ \A k \in DOMAIN remote : remote[k] = frame.at.remote[k]
        /\ IsDirAt(frame.at.remote, target) => IsDirAt(remote, target)

\* The routine is left with Ok(()) when the stack is empty, or with Err(..).
ReturnsEmptyOrFailed ==
    (InRemove /\ ~InRemove') =>
        \/ spc' = "cmd_err"
        \/ frame.rm.stack = <<>> /\ spc' = frame.rm.ret

\* C40: remove_remote_entry_recursive terminates: once inside it the engine
\* leaves it, with the stack empty or with an error; every directory is
\* pushed at most twice (not visited, then visited) and every file once; on
\* an error what was removed stays removed and the directory it was called
\* on has not been removed.
C40_RemoveTerminates ==
    /\ InRemove ~> ~InRemove
    /\ []StackIsBounded
    /\ []TargetSurvivesError
    /\ [][PushesAreBudgeted /\ ReturnsEmptyOrFailed /\ ErrorReturnKeepsRest]_vars

\* Remove of a directory has failed after it had removed entries beneath it.
C40_Witness ==
    /\ RemoveFailed
    /\ IsDirAt(remote, Resolve(frame.cmd.path))
    /\ DOMAIN remote # DOMAIN frame.at.remote
    /\ frame.rm.stack # <<>>


====
